---- MODULE Spec2Model ----
(***************************************************************************)
(* Model of the trade analyser: the backtest simulator, runBacktest         *)
(* (src/src/App_full.tsx, lines 390-491), under specification Spec, and the *)
(* indicator and scoring functions of src/src/services/technicalAnalysis.ts *)
(* under specification SpecAnalysis.  Further specifications: SpecPurity    *)
(* (repeated calls of analyzeTrade and runBacktest on one argument),        *)
(* SpecApp (the App component: coin loading, trade analysis, rendering),    *)
(* SpecFetch (fetchWithRetry), SpecCandles (the conversion of price points  *)
(* into daily candles) and SpecStorage (getCoinData and its localStorage    *)
(* entries).                                                                *)
(*                                                                         *)
(* Conventions.                                                            *)
(*  - The source indexes arrays from 0, TLA+ sequences from 1: the source's *)
(*    prices[i] is prices[i + 1] here.  Operators that take an index take   *)
(*    the source's 0-based index and add 1 where they read the sequence.    *)
(*  - Prices are positive integers.  profit_loss is the exact quotient the  *)
(*    source computes, kept as a fraction [num, den] (den > 0) and compared *)
(*    by cross-multiplication; floating-point rounding is not modelled.     *)
(*  - A property the source never writes on an object reads as Undefined,   *)
(*    as it does in JavaScript.                                             *)
(*  - runBacktest computes a tag, tradeResult, for every simulated trade    *)
(*    but does not store it on the trade it pushes; exitLog keeps it.       *)
(***************************************************************************)
EXTENDS Integers, Sequences, FiniteSets, TLC

VARIABLES
    params,          \* the argument object of the call
    pc,              \* "ready" before the call, "done" once it has returned
    backtestResult,  \* the BacktestResult returned (Null before the call)
    exitLog          \* per pushed trade, the loop's locals tradeResult and
                     \* exitFound at the push (they are not part of the trade)
VARIABLE
    ret              \* the value a technicalAnalysis function returned (Null
                     \* before the call and throughout Spec)
VARIABLE
    results          \* SpecPurity: per completed call on the same argument
                     \* object, the argument as the call found it and the
                     \* value it returned

VARIABLES
    selectedCoin,    \* SpecApp: the state of the App component (useState),
    chartData,       \* backtestResult included
    loading,
    error,
    analysis,
    currentPriceState,  \* the state currentPrice (the name is taken below
                        \* by the parameter of the analysis functions)
    indicators,
    pending,         \* the coins of the loadCoinData calls that are waiting
                     \* for getCoinData, in the order they were started
    rendered         \* what the last render of the results section produced
VARIABLES
    attempt,         \* SpecFetch: the loop counter i of fetchWithRetry
    trace,           \* SpecFetch, SpecStorage: the requests issued and the
                     \* delays waited so far
    localStorage,    \* SpecStorage: per coin, the stored JSON entry
    now              \* SpecStorage: the clock Date.now() reads

appVars == <<selectedCoin, chartData, loading, error, analysis, currentPriceState, indicators, pending, rendered>>
ioVars == <<attempt, trace, localStorage, now>>
vars == <<params, pc, backtestResult, exitLog, ret, results, appVars, ioVars>>

Null == "null"
Undefined == "undefined"

\* the variables of the other specifications, while they are not in use
IdleApp ==
    /\ selectedCoin = Null
    /\ chartData = Null
    /\ loading = Null
    /\ error = Null
    /\ analysis = Null
    /\ currentPriceState = Null
    /\ indicators = Null
    /\ pending = Null
    /\ rendered = Null

IdleIO ==
    /\ attempt = Null
    /\ trace = Null
    /\ localStorage = Null
    /\ now = Null

(***************************************************************************)
(* Bounds of the enumerated inputs.                                        *)
(***************************************************************************)
MaxLen == 3        \* longest exhaustively enumerated candle series
MaxPrice == 2      \* price levels 1..MaxPrice of the enumerated candles
MaxExtra == 2      \* long series have up to BacktestWindow + MaxExtra candles

(***************************************************************************)
(* Program constant: the backtest looks at the most recent 90 candles.     *)
(***************************************************************************)
BacktestWindow == 90

Max(a, b) == IF a >= b THEN a ELSE b
Min(a, b) == IF a <= b THEN a ELSE b

(***************************************************************************)
(* Fractions (the real numbers the source computes by division).           *)
(***************************************************************************)
RatEq(p, q) == p.num * q.den = q.num * p.den
RatOfInt(k) == [num |-> k, den |-> 1]

(***************************************************************************)
(* calculateProfitLoss: the percentage move from entry to exit, signed by  *)
(* the direction.                                                          *)
(***************************************************************************)
calculateProfitLoss(entryPrice, exitPrice, direction) ==
    IF direction = "long"
        THEN [num |-> (exitPrice - entryPrice) * 100, den |-> entryPrice]
        ELSE [num |-> (entryPrice - exitPrice) * 100, den |-> entryPrice]

(***************************************************************************)
(* runBacktest, lines 398-491.  The fields of a candle are numbers (the    *)
(* OHLCData type), so the source's `?? 0` defaults never apply.            *)
(***************************************************************************)

\* Variant of NotEnoughData: the guard off by one (an empty series only)
NotEnoughDataOffByOne(prices) == Len(prices) < 1

\* line 406: the guard of the early failure return
NotEnoughData(prices) == Len(prices) < 2

\* Variant of StartIndex: no restriction to the most recent candles
StartIndexNoWindow(prices) == 0

\* line 418: 0-based index of the first entry candle
StartIndex(prices) == Max(0, Len(prices) - BacktestWindow)

\* lines 427-430: the exit locals of one entry, before the forward scan
InitialExit(nextCandle) ==
    [exitPrice   |-> nextCandle.close,
     exitTime    |-> nextCandle.time,
     tradeResult |-> "stop_loss",
     exitFound   |-> FALSE]

\* Variant of ScanStep: the stop-loss branches forget exitFound = true
ScanStepNoBreak(candle, st, takeProfit, stopLoss, direction) ==
    IF direction = "long"
    THEN IF candle.high >= takeProfit
         THEN [exitPrice |-> takeProfit, tradeResult |-> "take_profit",
               exitTime |-> candle.time, exitFound |-> TRUE]
         ELSE IF candle.low <= stopLoss
         THEN [exitPrice |-> stopLoss, tradeResult |-> "stop_loss",
               exitTime |-> candle.time, exitFound |-> st.exitFound]
         ELSE st
    ELSE IF candle.low <= takeProfit
         THEN [exitPrice |-> takeProfit, tradeResult |-> "take_profit",
               exitTime |-> candle.time, exitFound |-> TRUE]
         ELSE IF candle.high >= stopLoss
         THEN [exitPrice |-> stopLoss, tradeResult |-> "stop_loss",
               exitTime |-> candle.time, exitFound |-> st.exitFound]
         ELSE st

\* Variant of ScanStep: the stop-loss is tested before the take-profit
ScanStepStopFirst(candle, st, takeProfit, stopLoss, direction) ==
    IF direction = "long"
    THEN IF candle.low <= stopLoss
         THEN [exitPrice |-> stopLoss, tradeResult |-> "stop_loss",
               exitTime |-> candle.time, exitFound |-> TRUE]
         ELSE IF candle.high >= takeProfit
         THEN [exitPrice |-> takeProfit, tradeResult |-> "take_profit",
               exitTime |-> candle.time, exitFound |-> TRUE]
         ELSE st
    ELSE IF candle.high >= stopLoss
         THEN [exitPrice |-> stopLoss, tradeResult |-> "stop_loss",
               exitTime |-> candle.time, exitFound |-> TRUE]
         ELSE IF candle.low <= takeProfit
         THEN [exitPrice |-> takeProfit, tradeResult |-> "take_profit",
               exitTime |-> candle.time, exitFound |-> TRUE]
         ELSE st

\* Variant of ScanStep: the long stop-loss comparison is turned around
ScanStepFlippedStop(candle, st, takeProfit, stopLoss, direction) ==
    IF direction = "long"
    THEN IF candle.high >= takeProfit
         THEN [exitPrice |-> takeProfit, tradeResult |-> "take_profit",
               exitTime |-> candle.time, exitFound |-> TRUE]
         ELSE IF candle.low >= stopLoss
         THEN [exitPrice |-> stopLoss, tradeResult |-> "stop_loss",
               exitTime |-> candle.time, exitFound |-> TRUE]
         ELSE st
    ELSE IF candle.low <= takeProfit
         THEN [exitPrice |-> takeProfit, tradeResult |-> "take_profit",
               exitTime |-> candle.time, exitFound |-> TRUE]
         ELSE IF candle.high >= stopLoss
         THEN [exitPrice |-> stopLoss, tradeResult |-> "stop_loss",
               exitTime |-> candle.time, exitFound |-> TRUE]
         ELSE st

\* lines 438-464: one pass of the forward scan's body on candle prices[j]
ScanStep(candle, st, takeProfit, stopLoss, direction) ==
    IF direction = "long"
    THEN IF candle.high >= takeProfit
         THEN [exitPrice |-> takeProfit, tradeResult |-> "take_profit",
               exitTime |-> candle.time, exitFound |-> TRUE]
         ELSE IF candle.low <= stopLoss
         THEN [exitPrice |-> stopLoss, tradeResult |-> "stop_loss",
               exitTime |-> candle.time, exitFound |-> TRUE]
         ELSE st
    ELSE IF candle.low <= takeProfit
         THEN [exitPrice |-> takeProfit, tradeResult |-> "take_profit",
               exitTime |-> candle.time, exitFound |-> TRUE]
         ELSE IF candle.high >= stopLoss
         THEN [exitPrice |-> stopLoss, tradeResult |-> "stop_loss",
               exitTime |-> candle.time, exitFound |-> TRUE]
         ELSE st

\* line 437: for (let j = i + 1; j < prices.length && !exitFound; j++)
RECURSIVE ScanForward(_, _, _, _, _, _)
ScanForward(prices, j, st, takeProfit, stopLoss, direction) ==
    IF j < Len(prices) /\ ~st.exitFound
    THEN ScanForward(prices, j + 1,
                     ScanStep(prices[j + 1], st, takeProfit, stopLoss, direction),
                     takeProfit, stopLoss, direction)
    ELSE st

\* Variant of ForceClose: closes at the next candle's open
ForceCloseAtOpen(st, nextCandle) ==
    IF ~st.exitFound
    THEN [st EXCEPT !.exitPrice = nextCandle.open,
                    !.exitTime = nextCandle.time,
                    !.tradeResult = "stop_loss"]
    ELSE st

\* lines 467-471: no exit found, close at the next candle's close
ForceClose(st, nextCandle) ==
    IF ~st.exitFound
    THEN [st EXCEPT !.exitPrice = nextCandle.close,
                    !.exitTime = nextCandle.time,
                    !.tradeResult = "stop_loss"]
    ELSE st

\* lines 421-471: the exit locals of entry index i when the trade is pushed
ExitOf(prices, i, takeProfit, stopLoss, direction) ==
    LET nextCandle == prices[i + 2]
    IN ForceClose(ScanForward(prices, i + 1, InitialExit(nextCandle),
                              takeProfit, stopLoss, direction),
                  nextCandle)

\* Variant of TradeOf: exit_time copied from the entry candle
TradeOfExitAtEntry(prices, i, takeProfit, stopLoss, direction) ==
    LET currentCandle == prices[i + 1]
        entryPrice == currentCandle.open
        st == ExitOf(prices, i, takeProfit, stopLoss, direction)
    IN [entry_time  |-> currentCandle.time,
        exit_time   |-> currentCandle.time,
        entry_price |-> entryPrice,
        high_price  |-> currentCandle.high,
        low_price   |-> currentCandle.low,
        exit_price  |-> st.exitPrice,
        profit_loss |-> calculateProfitLoss(entryPrice, st.exitPrice, direction)]

\* lines 473-483: the object pushed on the ledger for entry index i.  The
\* local tradeResult is not among its properties.
TradeOf(prices, i, takeProfit, stopLoss, direction) ==
    LET currentCandle == prices[i + 1]
        entryPrice == currentCandle.open
        st == ExitOf(prices, i, takeProfit, stopLoss, direction)
    IN [entry_time  |-> currentCandle.time,
        exit_time   |-> st.exitTime,
        entry_price |-> entryPrice,
        high_price  |-> currentCandle.high,
        low_price   |-> currentCandle.low,
        exit_price  |-> st.exitPrice,
        profit_loss |-> calculateProfitLoss(entryPrice, st.exitPrice, direction)]

\* lines 415-484: the ledger the loop builds, one push per i in
\* startIndex .. prices.length - 2, in that order
BacktestLoop(prices, startIndex, takeProfit, stopLoss, direction) ==
    [k \in 1..Max(0, Len(prices) - 1 - startIndex) |->
        TradeOf(prices, startIndex + k - 1, takeProfit, stopLoss, direction)]

\* lines 429-471: the locals tradeResult and exitFound at each push, in push
\* order
ExitLogOf(prices, startIndex, takeProfit, stopLoss, direction) ==
    [k \in 1..Max(0, Len(prices) - 1 - startIndex) |->
        LET st == ExitOf(prices, startIndex + k - 1, takeProfit, stopLoss, direction)
        IN [tradeResult |-> st.tradeResult, exitFound |-> st.exitFound]]

\* lines 398-491
runBacktest(p) ==
    IF NotEnoughData(p.prices)
    THEN [success    |-> FALSE,
          message    |-> "Not enough price data",
          trades     |-> <<>>,
          statistics |-> Null]
    ELSE [success    |-> TRUE,
          trades     |-> BacktestLoop(p.prices, StartIndex(p.prices),
                                      p.takeProfit, p.stopLoss, p.direction),
          statistics |-> Null]

\* What reading property `name` of object `obj` yields.
Prop(obj, name) == IF name \in DOMAIN obj THEN obj[name] ELSE Undefined

(***************************************************************************)
(* Inputs.                                                                 *)
(*  - EnumSeries: every series of up to MaxLen candles over the price     *)
(*    levels 1..MaxPrice, each candle opening and closing at its low,      *)
(*    rising from its low to its high or falling from its high to its low, *)
(*    one candle per day, in chronological order.                          *)
(*  - ReversedSeries: the two-candle series with the times out of order.   *)
(*  - ScenarioSeries: short series and series around the window length,   *)
(*    flat at 100 or moving within 100..102, optionally with one candle    *)
(*    whose high is 120; run long with 110/95 and short with 95/110.       *)
(***************************************************************************)
Directions == {"long", "short"}

EnumCandles ==
    {[time |-> 0, open |-> o, high |-> h, low |-> l, close |-> c] :
        <<l, h, o, c>> \in {q \in (1..MaxPrice) \X (1..MaxPrice) \X
                                   (1..MaxPrice) \X (1..MaxPrice) :
                              /\ q[1] <= q[2]
                              /\ <<q[3], q[4]>> \in {<<q[1], q[1]>>,
                                                      <<q[1], q[2]>>,
                                                      <<q[2], q[1]>>}}}

Stamp(s) == [k \in 1..Len(s) |-> [s[k] EXCEPT !.time = k]]
StampReversed(s) == [k \in 1..Len(s) |-> [s[k] EXCEPT !.time = Len(s) + 1 - k]]

EnumSeries == {Stamp(s) : s \in UNION {[1..n -> EnumCandles] : n \in 0..MaxLen}}
ReversedSeries == {StampReversed(s) : s \in [1..2 -> EnumCandles]}

ScenarioCandle(k, v, spike) ==
    LET o == 100 + v * (k % 2)
        c == 100 + v * (k % 3)
    IN [time |-> k, open |-> o, high |-> IF k = spike THEN 120 ELSE Max(o, c),
        low |-> Min(o, c), close |-> c]

ScenarioLengths ==
    (2..MaxLen) \cup ((BacktestWindow - 1)..(BacktestWindow + MaxExtra))

ScenarioSeries ==
    {[k \in 1..n |-> ScenarioCandle(k, v, spike)] :
        n \in ScenarioLengths,
        v \in 0..1,
        spike \in {0, 2, BacktestWindow - 1, BacktestWindow}}

ScenarioParams ==
    {[prices |-> s, takeProfit |-> 110, stopLoss |-> 95, direction |-> "long"] :
        s \in ScenarioSeries}
    \cup
    {[prices |-> s, takeProfit |-> 95, stopLoss |-> 110, direction |-> "short"] :
        s \in ScenarioSeries}

Thresholds == 1..(MaxPrice + 1)

(***************************************************************************)
(* The state machine: one call of runBacktest on a chosen input.           *)
(***************************************************************************)
Init ==
    /\ \/ params \in ScenarioParams
       \/ \E s \in EnumSeries \cup ReversedSeries, tp \in Thresholds,
              sl \in Thresholds, d \in Directions :
              params = [prices |-> s, takeProfit |-> tp, stopLoss |-> sl,
                        direction |-> d]
    /\ pc = "ready"
    /\ backtestResult = Null
    /\ exitLog = <<>>
    /\ ret = Null
    /\ results = <<>>
    /\ IdleApp
    /\ IdleIO

RunBacktest ==
    /\ pc = "ready"
    /\ backtestResult' = runBacktest(params)
    /\ exitLog' = IF NotEnoughData(params.prices)
                  THEN <<>>
                  ELSE ExitLogOf(params.prices, StartIndex(params.prices),
                                 params.takeProfit, params.stopLoss,
                                 params.direction)
    /\ pc' = "done"
    /\ UNCHANGED <<params, ret, results, appVars, ioVars>>

Next == RunBacktest

Spec == Init /\ [][Next]_vars

(***************************************************************************)
(* Vocabulary of the properties, stated on the input and the returned      *)
(* result only.                                                            *)
(***************************************************************************)
Done == pc = "done"
Succeeded == Done /\ backtestResult.success

Prices == params.prices
NumCandles == Len(params.prices)
Ledger == backtestResult.trades

\* The candles have pairwise distinct times in every input, so a trade's
\* entry candle is the one whose time is the trade's entry_time.
EntryIndex(t) == CHOOSE e \in 1..NumCandles : Prices[e].time = t.entry_time

StrictlyIncreasingTimes(prices) ==
    \A a, b \in 1..Len(prices) : a < b => prices[a].time < prices[b].time

TouchesTakeProfit(candle) ==
    IF params.direction = "long"
    THEN candle.high >= params.takeProfit
    ELSE candle.low <= params.takeProfit

TouchesStopLoss(candle) ==
    IF params.direction = "long"
    THEN candle.low <= params.stopLoss
    ELSE candle.high >= params.stopLoss

Touches(candle) == TouchesTakeProfit(candle) \/ TouchesStopLoss(candle)

\* j is the first candle after candle e that touches a threshold
FirstTouch(e, j) ==
    /\ j \in (e + 1)..NumCandles
    /\ Touches(Prices[j])
    /\ \A m \in (e + 1)..(j - 1) : ~Touches(Prices[m])

NoTouchAfter(e) == \A m \in (e + 1)..NumCandles : ~Touches(Prices[m])

(***************************************************************************)
(* C1.  For every series of n >= 2 candles and either direction the call    *)
(* succeeds with exactly min(n, 90) - 1 trades, and trade k enters at the   *)
(* time and the open of the k-th candle of the most recent min(n, 90).      *)
(***************************************************************************)
C1_LedgerIsWindow ==
    (Done /\ NumCandles >= 2) =>
        LET w == Min(NumCandles, BacktestWindow)
        IN /\ backtestResult.success = TRUE
           /\ Len(Ledger) = w - 1
           /\ \A k \in 1..(w - 1) :
                /\ Ledger[k].entry_time = Prices[NumCandles - w + k].time
                /\ Ledger[k].entry_price = Prices[NumCandles - w + k].open

\* a series longer than the window was cut to the window
C1_Witness ==
    /\ Done
    /\ NumCandles = BacktestWindow + 2
    /\ backtestResult.success
    /\ Len(Ledger) = BacktestWindow - 1
    /\ Ledger[1].entry_time = Prices[3].time

(***************************************************************************)
(* C2.  If the candle times are strictly increasing, every trade of the     *)
(* ledger has exit_time >= entry_time and its exit_time is the time of a    *)
(* candle that comes after its entry candle.                                *)
(***************************************************************************)
C2_ExitAfterEntry ==
    (Succeeded /\ StrictlyIncreasingTimes(Prices)) =>
        \A k \in 1..Len(Ledger) :
            /\ Ledger[k].exit_time >= Ledger[k].entry_time
            /\ \E e, j \in 1..NumCandles :
                 /\ e < j
                 /\ Prices[e].time = Ledger[k].entry_time
                 /\ Prices[j].time = Ledger[k].exit_time

\* a trade that exits two candles after its entry
C2_Witness ==
    /\ Succeeded
    /\ StrictlyIncreasingTimes(Prices)
    /\ \E k \in 1..Len(Ledger) : Ledger[k].exit_time >= Ledger[k].entry_time + 2

(***************************************************************************)
(* C3.  With fewer than 2 candles the call returns a failure result:        *)
(* success = false, a non-empty message, an empty ledger, null statistics.  *)
(***************************************************************************)
C3_NotEnoughData ==
    (Done /\ NumCandles < 2) =>
        /\ backtestResult.success = FALSE
        /\ Prop(backtestResult, "message") # Undefined
        /\ Prop(backtestResult, "message") # ""
        /\ backtestResult.trades = <<>>
        /\ backtestResult.statistics = Null

\* the call has returned for a one-candle series
C3_Witness ==
    /\ Done
    /\ NumCandles = 1
    /\ backtestResult.success = FALSE

(***************************************************************************)
(* C4.  If a candle after the entry candle touches a threshold, the trade   *)
(* exits at the first such candle j: exit_time is candle j's time and       *)
(* exit_price is a threshold that candle j touches.                         *)
(***************************************************************************)
C4_ExitAtFirstTouch ==
    Succeeded =>
        \A k \in 1..Len(Ledger) :
            \A j \in 1..NumCandles :
                FirstTouch(EntryIndex(Ledger[k]), j) =>
                    /\ Ledger[k].exit_time = Prices[j].time
                    /\ \/ /\ TouchesTakeProfit(Prices[j])
                          /\ Ledger[k].exit_price = params.takeProfit
                       \/ /\ TouchesStopLoss(Prices[j])
                          /\ Ledger[k].exit_price = params.stopLoss

\* a trade whose first touching candle touches only the stop-loss and is
\* followed by a candle that touches the take-profit
C4_Witness ==
    /\ Succeeded
    /\ params.takeProfit # params.stopLoss
    /\ \E k \in 1..Len(Ledger) :
         LET e == EntryIndex(Ledger[k])
         IN \E j \in (e + 1)..(NumCandles - 1) :
                /\ ~TouchesTakeProfit(Prices[j])
                /\ FirstTouch(e, j)
                /\ \E m \in (j + 1)..NumCandles : TouchesTakeProfit(Prices[m])
                /\ Ledger[k].exit_time = Prices[j].time
                /\ Ledger[k].exit_price = params.stopLoss

C5_WitnessShort ==
    /\ Succeeded
    /\ params.direction = "short"
    /\ params.takeProfit # params.stopLoss
    /\ \E k \in 1..Len(Ledger) :
         \E j \in 1..NumCandles :
            /\ FirstTouch(EntryIndex(Ledger[k]), j)
            /\ TouchesTakeProfit(Prices[j])
            /\ TouchesStopLoss(Prices[j])
            /\ exitLog[k].tradeResult = "take_profit"
            /\ Ledger[k].exit_price = params.takeProfit

WrongSideTakeProfit(t) ==
    IF params.direction = "long"
    THEN params.takeProfit < t.entry_price
    ELSE params.takeProfit > t.entry_price

C7_WrongSideNeverTakesProfit ==
    Succeeded =>
        \A k \in 1..Len(Ledger) :
            WrongSideTakeProfit(Ledger[k]) =>
                ~(exitLog[k].exitFound /\ exitLog[k].tradeResult = "take_profit")

(***************************************************************************)
(* C8.  90 flat candles at 100, long, takeProfit 110, stopLoss 95: 89       *)
(* trades, none touching a threshold, each force-closed with the stop_loss  *)
(* tag at exit_price 100 and profit_loss exactly 0.  The tag is the loop's  *)
(* tradeResult at the push.                                                 *)
(***************************************************************************)
FlatScenario ==
    /\ NumCandles = 90
    /\ \A k \in 1..NumCandles :
         /\ Prices[k].open = 100 /\ Prices[k].high = 100
         /\ Prices[k].low = 100 /\ Prices[k].close = 100
    /\ params.direction = "long"
    /\ params.takeProfit = 110
    /\ params.stopLoss = 95

C9_SpikeTakesProfit ==
    ( /\ Succeeded
      /\ params.direction = "long"
      /\ params.takeProfit = 110
      /\ params.stopLoss = 95 ) =>
        \A k \in 1..Len(Ledger) :
            LET e == EntryIndex(Ledger[k])
            IN Prices[e + 1].high = 120 =>
                /\ Prop(Ledger[k], "result") = "take_profit"
                /\ Ledger[k].exit_price = 110
                /\ Ledger[k].exit_time = Prices[e + 1].time
                /\ RatEq(Ledger[k].profit_loss,
                         [num |-> (110 - Prices[e].open) * 100,
                          den |-> Prices[e].open])

\* C9 without the result property: what the ledger does carry
C9_SpikeExitValues ==
    ( /\ Succeeded
      /\ params.direction = "long"
      /\ params.takeProfit = 110
      /\ params.stopLoss = 95 ) =>
        \A k \in 1..Len(Ledger) :
            LET e == EntryIndex(Ledger[k])
            IN Prices[e + 1].high = 120 =>
                /\ exitLog[k].tradeResult = "take_profit"
                /\ Ledger[k].exit_price = 110
                /\ Ledger[k].exit_time = Prices[e + 1].time
                /\ RatEq(Ledger[k].profit_loss,
                         [num |-> (110 - Prices[e].open) * 100,
                          den |-> Prices[e].open])

(***************************************************************************)
(* C10.  Whenever the call succeeds it returns summary statistics reduced   *)
(* from the ledger: total_trades is the ledger length, winning_trades +     *)
(* losing_trades = total_trades, and profit_factor is +infinity when the    *)
(* gross loss is zero and the gross profit is positive.                     *)
(***************************************************************************)
Infinity == "Infinity"

C10_StatisticsReduceLedger ==
    Succeeded =>
        /\ backtestResult.statistics # Null
        /\ LET stats == backtestResult.statistics
           IN /\ stats.total_trades = Len(Ledger)
              /\ stats.winning_trades + stats.losing_trades = stats.total_trades
              /\ ( /\ \A k \in 1..Len(Ledger) : Ledger[k].profit_loss.num >= 0
                   /\ \E k \in 1..Len(Ledger) : Ledger[k].profit_loss.num > 0 ) =>
                     stats.profit_factor = Infinity

(***************************************************************************)
(* C11.  Every trade in the ledger of a successful call carries the         *)
(* takeProfit and stopLoss levels of the call and a metrics record whose    *)
(* riskRewardRatio is |takeProfit - entry| / |entry - stopLoss|, and a      *)
(* number (neither NaN nor infinite) when the entry price equals stopLoss.  *)
(***************************************************************************)
Abs(a) == IF a >= 0 THEN a ELSE 0 - a

C11_TradesCarryLevelsAndMetrics ==
    Succeeded =>
        \A k \in 1..Len(Ledger) :
            LET t == Ledger[k]
            IN /\ {"takeProfit", "stopLoss", "metrics"} \subseteq DOMAIN t
               /\ t.takeProfit = params.takeProfit
               /\ t.stopLoss = params.stopLoss
               /\ "riskRewardRatio" \in DOMAIN t.metrics
               /\ t.metrics.riskRewardRatio \in [num : Int, den : Nat \ {0}]
               /\ t.entry_price # params.stopLoss =>
                    RatEq(t.metrics.riskRewardRatio,
                          [num |-> Abs(params.takeProfit - t.entry_price),
                           den |-> Abs(t.entry_price - params.stopLoss)])

(***************************************************************************)
(***************************************************************************)
(* src/src/services/technicalAnalysis.ts.                                   *)
(*                                                                         *)
(* JavaScript numbers.  A number is a record: kind "number" with the exact  *)
(* fraction num/den (den > 0, lowest terms), kind "Infinity" with the sign  *)
(* in num, kind "NaN", or kind "undefined" for an argument the caller did   *)
(* not pass or an array element that does not exist.  The operators below   *)
(* are the arithmetic of the language on these values: a division by zero   *)
(* gives an infinity or NaN, NaN propagates, every comparison with NaN is   *)
(* false.  Rounding of the binary floating-point representation is not      *)
(* modelled, and zero has no sign.                                          *)
(***************************************************************************)
(***************************************************************************)
RECURSIVE GCD(_, _)
GCD(a, b) == IF b = 0 THEN a ELSE GCD(b, a % b)

Sign(n) == IF n > 0 THEN 1 ELSE IF n < 0 THEN 0 - 1 ELSE 0

\* the number n/d for integers n and d, d # 0
Num(n, d) ==
    LET g == GCD(Abs(n), Abs(d))
    IN [kind |-> "number", num |-> Sign(d) * (n \div g), den |-> Abs(d) \div g]

NaN == [kind |-> "NaN", num |-> 0, den |-> 1]
Inf(sign) == [kind |-> "Infinity", num |-> sign, den |-> 1]
Missing == [kind |-> "undefined", num |-> 0, den |-> 1]

IsNaN(x) == x.kind = "NaN"
IsFinite(x) == x.kind = "number"
IsInf(x) == x.kind = "Infinity"

\* the conversion every arithmetic operator applies to its operands
ToNumber(x) == IF x.kind = "undefined" THEN NaN ELSE x

JsNeg(x) ==
    LET a == ToNumber(x)
    IN IF IsNaN(a) THEN NaN
       ELSE IF IsInf(a) THEN Inf(0 - a.num)
       ELSE Num(0 - a.num, a.den)

JsAdd(x, y) ==
    LET a == ToNumber(x)
        b == ToNumber(y)
    IN IF IsNaN(a) \/ IsNaN(b) THEN NaN
       ELSE IF IsInf(a) /\ IsInf(b) THEN (IF a.num = b.num THEN a ELSE NaN)
       ELSE IF IsInf(a) THEN a
       ELSE IF IsInf(b) THEN b
       ELSE LET g == GCD(a.den, b.den)
            IN Num(a.num * (b.den \div g) + b.num * (a.den \div g),
                   (a.den \div g) * b.den)

JsSub(x, y) == JsAdd(x, JsNeg(y))

JsMul(x, y) ==
    LET a == ToNumber(x)
        b == ToNumber(y)
    IN IF IsNaN(a) \/ IsNaN(b) THEN NaN
       ELSE IF IsInf(a) \/ IsInf(b)
            THEN (IF a.num = 0 \/ b.num = 0 THEN NaN
                  ELSE Inf(Sign(a.num) * Sign(b.num)))
       ELSE LET g == GCD(Abs(a.num), b.den)
                h == GCD(Abs(b.num), a.den)
            IN Num((a.num \div g) * (b.num \div h),
                   (a.den \div h) * (b.den \div g))

JsDiv(x, y) ==
    LET a == ToNumber(x)
        b == ToNumber(y)
    IN IF IsNaN(a) \/ IsNaN(b) THEN NaN
       ELSE IF IsInf(a) THEN (IF IsInf(b) THEN NaN
                              ELSE Inf(a.num * (IF b.num < 0 THEN 0 - 1 ELSE 1)))
       ELSE IF IsInf(b) THEN Num(0, 1)
       ELSE IF b.num = 0 THEN (IF a.num = 0 THEN NaN ELSE Inf(Sign(a.num)))
       ELSE LET g == GCD(Abs(a.num), Abs(b.num))
                h == GCD(a.den, b.den)
            IN Num((a.num \div g) * (b.den \div h),
                   (a.den \div h) * (b.num \div g))

\* x < y
JsLt(x, y) ==
    LET a == ToNumber(x)
        b == ToNumber(y)
    IN IF IsNaN(a) \/ IsNaN(b) THEN FALSE
       ELSE IF IsInf(a) THEN a.num < 0 /\ ~(IsInf(b) /\ b.num < 0)
       ELSE IF IsInf(b) THEN b.num > 0
       ELSE a.num * b.den < b.num * a.den

JsGt(x, y) == JsLt(y, x)
\* x >= y
JsGe(x, y) == ~IsNaN(ToNumber(x)) /\ ~IsNaN(ToNumber(y)) /\ ~JsLt(x, y)
JsLe(x, y) == JsGe(y, x)

\* Math.max, Math.min, Math.abs, Math.round (halves round up)
MathMax(x, y) ==
    IF IsNaN(ToNumber(x)) \/ IsNaN(ToNumber(y)) THEN NaN
    ELSE IF JsLt(x, y) THEN y ELSE x

MathMin(x, y) ==
    IF IsNaN(ToNumber(x)) \/ IsNaN(ToNumber(y)) THEN NaN
    ELSE IF JsLt(y, x) THEN y ELSE x

MathAbs(x) ==
    LET a == ToNumber(x)
    IN IF IsNaN(a) THEN NaN
       ELSE IF IsInf(a) THEN Inf(1)
       ELSE Num(Abs(a.num), a.den)

MathRound(x) ==
    LET a == ToNumber(x)
        q == a.num \div a.den
        r == a.num % a.den
    IN IF IsFinite(a) THEN Num(IF r >= a.den - r THEN q + 1 ELSE q, 1) ELSE a

\* !x
Falsy(x) == x.kind \in {"NaN", "undefined"} \/ (IsFinite(x) /\ x.num = 0)

\* const x = e; ...: written The({... : x \in {e}}), the value of ... with x
\* bound to the value of e, which is computed once
The(S) == CHOOSE r \in S : TRUE

\* the integer k, and the decimal literal with the digits k after "0."
I(k) == Num(k, 1)
Tenths(k) == Num(k, 10)

(***************************************************************************)
(* Arrays of numbers are sequences of numbers; prices are given as         *)
(* sequences of integers and read through At, which yields Missing for an   *)
(* index outside the array.                                                 *)
(***************************************************************************)
At(arr, i) == IF i + 1 \in DOMAIN arr THEN arr[i + 1] ELSE Missing
Numbers(prices) == [k \in 1..Len(prices) |-> I(prices[k])]
Last(arr) == At(arr, Len(arr) - 1)

\* arr.slice(from, to) for 0 <= from
Slice(arr, from, to) ==
    [k \in 1..Max(0, Min(to, Len(arr)) - from) |-> arr[from + k]]

\* arr.slice(-n)
SliceLast(arr, n) == Slice(arr, Max(0, Len(arr) - n), Len(arr))

\* arr.reduce((a, b) => a + b, 0).  The additions are exact, so their order
\* does not matter: the array is summed by halves.
RECURSIVE JsSum(_)
JsSum(arr) ==
    IF Len(arr) = 0 THEN I(0)
    ELSE IF Len(arr) = 1 THEN JsAdd(I(0), arr[1])
    ELSE LET half == Len(arr) \div 2
         IN JsAdd(JsSum(SubSeq(arr, 1, half)),
                  JsSum(SubSeq(arr, half + 1, Len(arr))))

\* Math.sqrt, for the squares of fractions (the inputs are chosen so that
\* every standard deviation is one)
MathSqrt(x) ==
    LET a == ToNumber(x)
    IN IF IsNaN(a) \/ (IsFinite(a) /\ a.num < 0) THEN NaN
       ELSE IF IsInf(a) THEN a
       ELSE Num(CHOOSE r \in 0..a.num : r * r = a.num,
                CHOOSE r \in 1..a.den : r * r = a.den)

(***************************************************************************)
(* calculateEMA, lines 3-13                                                 *)
(***************************************************************************)
RECURSIVE EMALoop(_, _, _, _)
\* lines 7-10: the pushes of iterations i, i + 1, ... given the array so far
EMALoop(prices, multiplier, ema, i) ==
    IF i < Len(prices)
    THEN LET currentEMA == JsAdd(JsMul(JsSub(At(prices, i), At(ema, i - 1)),
                                       multiplier),
                                 At(ema, i - 1))
         IN EMALoop(prices, multiplier, Append(ema, currentEMA), i + 1)
    ELSE ema

calculateEMA(prices, period) ==
    LET multiplier == JsDiv(I(2), I(period + 1))
    IN EMALoop(prices, multiplier, <<At(prices, 0)>>, 1)

(***************************************************************************)
(* calculateRSI, lines 15-38                                                *)
(***************************************************************************)
\* lines 29 and 34
RSIValue(avgGain, avgLoss) ==
    JsSub(I(100), JsDiv(I(100), JsAdd(I(1), JsDiv(avgGain, avgLoss))))

RECURSIVE RSILoop(_, _, _, _, _, _, _)
\* lines 31-35: iterations i, i + 1, ... while i < prices.length - 1
RSILoop(n, gains, losses, period, rsi, i, avg) ==
    IF i < n - 1
    THEN LET avgGain == JsDiv(JsAdd(JsMul(avg.gain, I(period - 1)), At(gains, i)),
                              I(period))
             avgLoss == JsDiv(JsAdd(JsMul(avg.loss, I(period - 1)), At(losses, i)),
                              I(period))
         IN RSILoop(n, gains, losses, period,
                    Append(rsi, RSIValue(avgGain, avgLoss)), i + 1,
                    [gain |-> avgGain, loss |-> avgLoss])
    ELSE rsi

calculateRSI(prices, period) ==
    LET change(i) == JsSub(At(prices, i), At(prices, i - 1))
        gains == [k \in 1..Max(0, Len(prices) - 1) |->
                     IF JsGt(change(k), I(0)) THEN change(k) ELSE I(0)]
        losses == [k \in 1..Max(0, Len(prices) - 1) |->
                     IF JsLt(change(k), I(0)) THEN JsNeg(change(k)) ELSE I(0)]
        avgGain == JsDiv(JsSum(Slice(gains, 0, period)), I(period))
        avgLoss == JsDiv(JsSum(Slice(losses, 0, period)), I(period))
    IN RSILoop(Len(prices), gains, losses, period,
               <<RSIValue(avgGain, avgLoss)>>, period,
               [gain |-> avgGain, loss |-> avgLoss])

(***************************************************************************)
(* calculateBollingerBands, lines 40-80                                     *)
(***************************************************************************)
\* lines 61-74: what iteration i pushes on the four arrays
BandAt(prices, i, period, stdDev) ==
    LET slice == Slice(prices, i - period + 1, i + 1)
        squaredDiffs(sma) == [k \in 1..Len(slice) |->
                                 JsMul(JsSub(slice[k], sma), JsSub(slice[k], sma))]
        variance(sma) == JsDiv(JsSum(squaredDiffs(sma)), I(period))
    IN The({ The({ LET upper == JsAdd(sma, JsMul(standardDeviation, I(stdDev)))
                       lower == JsSub(sma, JsMul(standardDeviation, I(stdDev)))
                   IN [middle |-> sma,
                       upper |-> upper,
                       lower |-> lower,
                       bandWidth |-> JsMul(JsDiv(JsSub(upper, lower), sma), I(100))] :
                   standardDeviation \in {MathSqrt(variance(sma))} }) :
             sma \in {JsDiv(JsSum(slice), I(period))} })

calculateBollingerBands(prices, period, stdDev, lookback) ==
    LET count == Max(0, Len(prices) - period + 1)
    IN The({ LET bandWidths == [k \in 1..count |-> band[k].bandWidth]
                 recentBandWidths == SliceLast(bandWidths, lookback)
             IN [upper |-> [k \in 1..count |-> band[k].upper],
                 middle |-> [k \in 1..count |-> band[k].middle],
                 lower |-> [k \in 1..count |-> band[k].lower],
                 bandWidths |-> bandWidths,
                 averageBandWidth |-> JsDiv(JsSum(recentBandWidths),
                                            I(Len(recentBandWidths)))] :
             band \in {[k \in 1..count |->
                           BandAt(prices, period - 1 + k - 1, period, stdDev)]} })

(***************************************************************************)
(* calculateVolatilityScore, lines 82-94.  bb.bandWidths is an array and an *)
(* array is never falsy, so the guard of line 85 is the test of             *)
(* averageBandWidth.                                                        *)
(***************************************************************************)
\* Variant of calculateVolatilityScore: no guard on averageBandWidth
calculateVolatilityScoreUnguarded(bb) ==
    LET currentBandWidth == Last(bb.bandWidths)
        volatilityRatio == JsDiv(currentBandWidth, bb.averageBandWidth)
    IN MathMax(I(0), MathMin(I(100),
                             JsMul(JsSub(volatilityRatio, Tenths(5)), I(100))))

calculateVolatilityScore(bb) ==
    IF Falsy(bb.averageBandWidth)
    THEN I(50)
    ELSE LET currentBandWidth == Last(bb.bandWidths)
             volatilityRatio == JsDiv(currentBandWidth, bb.averageBandWidth)
         IN MathMax(I(0), MathMin(I(100),
                                  JsMul(JsSub(volatilityRatio, Tenths(5)), I(100))))

(***************************************************************************)
(* calculateTrendScore, lines 260-276                                       *)
(***************************************************************************)
calculateTrendScore(prices, ema, direction) ==
    LET recentPrices == SliceLast(prices, 20)
        priceChange == JsMul(JsDiv(JsSub(Last(recentPrices), At(recentPrices, 0)),
                                   At(recentPrices, 0)),
                             I(100))
        emaDiff == JsMul(JsDiv(JsSub(Last(prices), ema), ema), I(100))
        trendStrength == JsDiv(JsAdd(priceChange, emaDiff), I(2))
        score == IF direction = "long"
                 THEN JsAdd(I(50), JsMul(trendStrength, I(5)))
                 ELSE JsSub(I(50), JsMul(trendStrength, I(5)))
    IN MathMax(I(0), MathMin(I(100), score))

(***************************************************************************)
(* calculateMomentumScore, lines 278-293                                    *)
(***************************************************************************)
\* Variant of calculateMomentumScore: the short side tests the long side's
\* thresholds
calculateMomentumScoreSameSide(rsi, direction) ==
    IF JsLt(rsi, I(30)) THEN I(90)
    ELSE IF JsLt(rsi, I(40)) THEN I(70)
    ELSE IF JsGt(rsi, I(70)) THEN I(20)
    ELSE MathMax(I(0), JsSub(I(70), rsi))

calculateMomentumScore(rsi, direction) ==
    IF direction = "long"
    THEN IF JsLt(rsi, I(30)) THEN I(90)
         ELSE IF JsLt(rsi, I(40)) THEN I(70)
         ELSE IF JsGt(rsi, I(70)) THEN I(20)
         ELSE MathMax(I(0), JsSub(I(70), rsi))
    ELSE IF JsGt(rsi, I(70)) THEN I(90)
         ELSE IF JsGt(rsi, I(60)) THEN I(70)
         ELSE IF JsLt(rsi, I(30)) THEN I(20)
         ELSE MathMax(I(0), JsSub(rsi, I(30)))

(***************************************************************************)
(* calculateTargetProbabilities, lines 201-247                              *)
(***************************************************************************)
\* lines 211-236: the two probabilities before they are normalised
RawProbabilities(currentPrice, takeProfit, stopLoss, direction, trendScore, momentumScore, volatilityScore) ==
    LET tpDistance == JsMul(MathAbs(JsDiv(JsSub(takeProfit, currentPrice),
                                          currentPrice)), I(100))
        slDistance == JsMul(MathAbs(JsDiv(JsSub(stopLoss, currentPrice),
                                          currentPrice)), I(100))
        base == JsAdd(JsAdd(JsMul(trendScore, Tenths(4)),
                            JsMul(momentumScore, Tenths(4))),
                      JsMul(JsSub(I(100), volatilityScore), Tenths(2)))
        trendFraction == JsDiv(trendScore, I(100))
        tpBaseProbability ==
            IF direction = "long"
            THEN JsMul(base, trendFraction)
            ELSE JsMul(base, JsSub(I(1), trendFraction))
        slBaseProbability ==
            IF direction = "long"
            THEN JsMul(JsSub(I(100), base), JsSub(I(1), trendFraction))
            ELSE JsMul(JsSub(I(100), base), trendFraction)
        tpDistanceImpact == MathMax(I(0), JsSub(I(1), JsDiv(tpDistance, I(20))))
        slDistanceImpact == MathMax(I(0), JsSub(I(1), JsDiv(slDistance, I(20))))
        volatilityMultiplier == JsDiv(volatilityScore, I(100))
    IN [tp |-> JsMul(JsMul(tpBaseProbability, tpDistanceImpact),
                     JsSub(I(1), volatilityMultiplier)),
        sl |-> JsMul(JsMul(slBaseProbability, slDistanceImpact),
                     volatilityMultiplier)]

\* lines 201-247
calculateTargetProbabilities(currentPrice, takeProfit, stopLoss, direction, trendScore, momentumScore, volatilityScore) ==
    LET raw == RawProbabilities(currentPrice, takeProfit, stopLoss, direction,
                                trendScore, momentumScore, volatilityScore)
        total == JsAdd(raw.tp, raw.sl)
    IN [tpProbability |-> MathRound(JsMul(JsDiv(raw.tp, total), I(100))),
        slProbability |-> MathRound(JsMul(JsDiv(raw.sl, total), I(100)))]

(***************************************************************************)
(* calculateTradeSuccessLikelihood, lines 295-321: six parameters           *)
(***************************************************************************)
\* lines 304-308: the market conditions part of the likelihood
marketConditionScore(trendScore, momentumScore, volatilityScore) ==
    JsAdd(JsAdd(JsMul(trendScore, Tenths(4)),
                JsMul(momentumScore, Tenths(4))),
          JsMul(JsSub(I(100), volatilityScore), Tenths(2)))

calculateTradeSuccessLikelihood(trendScore, momentumScore, volatilityScore, riskRewardRatio, tpProbability, slProbability) ==
    LET tradeParametersScore ==
            JsAdd(JsAdd(JsMul(MathMin(I(100),
                                      JsMul(riskRewardRatio, Num(3333, 100))),
                              Tenths(4)),
                        JsMul(tpProbability, Tenths(4))),
                  JsMul(JsSub(I(100), slProbability), Tenths(2)))
    IN MathMin(I(100),
               JsAdd(JsMul(marketConditionScore(trendScore, momentumScore,
                                                volatilityScore), Tenths(6)),
                     JsMul(tradeParametersScore, Tenths(4))))

(***************************************************************************)
(* generateRecommendation, lines 323-337                                    *)
(***************************************************************************)
\* Variant of generateRecommendation: the tiers start above their thresholds
generateRecommendationStrict(score, direction) ==
    IF direction = "long"
    THEN IF JsGt(score, I(80)) THEN "Strong Buy"
         ELSE IF JsGt(score, I(60)) THEN "Buy"
         ELSE IF JsGt(score, I(40)) THEN "Neutral"
         ELSE IF JsGt(score, I(20)) THEN "Avoid Long"
         ELSE "Strong Avoid Long"
    ELSE IF JsGt(score, I(80)) THEN "Strong Short"
         ELSE IF JsGt(score, I(60)) THEN "Short"
         ELSE IF JsGt(score, I(40)) THEN "Neutral"
         ELSE IF JsGt(score, I(20)) THEN "Avoid Short"
         ELSE "Strong Avoid Short"

generateRecommendation(score, direction) ==
    IF direction = "long"
    THEN IF JsGe(score, I(80)) THEN "Strong Buy"
         ELSE IF JsGe(score, I(60)) THEN "Buy"
         ELSE IF JsGe(score, I(40)) THEN "Neutral"
         ELSE IF JsGe(score, I(20)) THEN "Avoid Long"
         ELSE "Strong Avoid Long"
    ELSE IF JsGe(score, I(80)) THEN "Strong Short"
         ELSE IF JsGe(score, I(60)) THEN "Short"
         ELSE IF JsGe(score, I(40)) THEN "Neutral"
         ELSE IF JsGe(score, I(20)) THEN "Avoid Short"
         ELSE "Strong Avoid Short"

(***************************************************************************)
(* analyzeTrade, lines 116-198.  The defaults of the indicator calls are    *)
(* the period 14 of calculateRSI and the period 20, the 2 standard          *)
(* deviations and the lookback 100 of calculateBollingerBands; the trend    *)
(* uses the 20-period EMA.  The call of calculateTradeSuccessLikelihood     *)
(* (lines 182-185) passes five arguments to its six parameters: they bind   *)
(* by position and the sixth parameter reads as undefined.  Of the         *)
(* explanations (lines 174-179) the momentum text is modelled, as the       *)
(* sequence of the pieces its template literal joins; the call of line 176  *)
(* passes lastRSI, trendScore and direction.  The trend and volatility      *)
(* texts are left out of the record.                                        *)
(***************************************************************************)
DefaultRSIPeriod == 14
DefaultBBPeriod == 20
DefaultStdDev == 2
DefaultLookback == 100
TrendEMAPeriod == 20

\* lines 141-158: the last RSI reading and the three market condition scores
MarketScores(prices, direction) ==
    LET ema20 == calculateEMA(prices, TrendEMAPeriod)
        rsi == calculateRSI(prices, DefaultRSIPeriod)
        lastEMA == Last(ema20)
        lastRSI == Last(rsi)
    IN The({ LET lastBB == [upper |-> Last(bb.upper),
                            middle |-> Last(bb.middle),
                            lower |-> Last(bb.lower),
                            bandWidths |-> bb.bandWidths,
                            averageBandWidth |-> bb.averageBandWidth]
             IN [lastRSI |-> lastRSI,
                 trendScore |-> calculateTrendScore(prices, lastEMA, direction),
                 momentumScore |-> calculateMomentumScore(lastRSI, direction),
                 volatilityScore |-> calculateVolatilityScore(lastBB)] :
             bb \in {calculateBollingerBands(prices, DefaultBBPeriod,
                                             DefaultStdDev, DefaultLookback)} })

\* lines 162-164: the market score before Math.round
UnroundedMarketScore(trendScore, momentumScore, volatilityScore) ==
    JsAdd(JsAdd(JsMul(Tenths(4), trendScore),
                JsMul(Tenths(3), momentumScore)),
          JsMul(Tenths(3), JsSub(I(100), volatilityScore)))

\* lines 362-395
generateMomentumExplanation(rsi, riskRewardRatio, direction) ==
    LET momentumText ==
            IF JsGt(rsi, I(70)) THEN "Overbought conditions"
            ELSE IF JsLt(rsi, I(30)) THEN "Oversold conditions"
            ELSE "Neutral RSI conditions"
        rrText ==
            IF JsGe(riskRewardRatio, I(2)) THEN "Favorable risk-reward ratio"
            ELSE "Risk-reward ratio needs improvement"
    IN IF direction = "long"
       THEN IF JsLt(rsi, I(30))
            THEN <<momentumText, " suggest potential reversal up", ". ", rrText, ".">>
            ELSE IF JsGt(rsi, I(70))
            THEN <<momentumText, " suggest caution for longs", ". ", rrText, ".">>
            ELSE <<momentumText, ". ", rrText, ".">>
       ELSE IF JsGt(rsi, I(70))
            THEN <<momentumText, " suggest potential reversal down", ". ", rrText, ".">>
            ELSE IF JsLt(rsi, I(30))
            THEN <<momentumText, " suggest caution for shorts", ". ", rrText, ".">>
            ELSE <<momentumText, ". ", rrText, ".">>

\* lines 160-197: the result, given the last RSI reading and the three scores
TradeAnalysis(p, direction, lastRSI, trendScore, momentumScore, volatilityScore) ==
    LET marketScore ==
            MathRound(UnroundedMarketScore(trendScore, momentumScore,
                                           volatilityScore))
    IN The({ The({ [trendScore |-> trendScore,
                    momentumScore |-> momentumScore,
                    volatilityScore |-> volatilityScore,
                    overallScore |-> overallScore,
                    marketScore |-> marketScore,
                    explanations |->
                        [momentum |-> generateMomentumExplanation(
                                          lastRSI, trendScore, direction)],
                    recommendation |-> generateRecommendation(overallScore, direction),
                    takeProfitProbability |-> prob.tpProbability,
                    stopLossProbability |-> prob.slProbability] :
                   overallScore \in
                       {calculateTradeSuccessLikelihood(
                            trendScore, momentumScore, volatilityScore,
                            prob.tpProbability, prob.slProbability, Missing)} }) :
             prob \in {calculateTargetProbabilities(
                           p.currentPrice, p.takeProfit, p.stopLoss, direction,
                           trendScore, momentumScore, volatilityScore)} })

analyzeTrade(p) ==
    LET direction == IF p.direction = Undefined THEN "long" ELSE p.direction
    IN The({ TradeAnalysis(p, direction, s.lastRSI, s.trendScore,
                           s.momentumScore, s.volatilityScore) :
             s \in {MarketScores(p.prices, direction)} })

(***************************************************************************)
(* Inputs of the technicalAnalysis functions.                               *)
(*  - PriceSeries: every series of up to MaxLen closes over 1..MaxPrice.    *)
(*  - PatternSeries: flat, rising and zigzag series of a given length; the  *)
(*    zigzag alternates between two levels 2 apart, so that every window    *)
(*    of even length has standard deviation 1.  calculateRSI is run on      *)
(*    them with its default period, calculateBollingerBands with its        *)
(*    defaults.                                                             *)
(*  - Readings: the fractions k / Grain from -1 to 100, and NaN.            *)
(*  - Scores: the multiples of 100 / ScoreGrid from 0 to 100.               *)
(*  - Ratios: the risk/reward ratios k / Grain up to 3.5 (a ratio of 3.0003 *)
(*    or more saturates its term of the likelihood).                        *)
(*  - Targets: the prices within MaxOffset of the current price BasePrice;  *)
(*    at 20% of BasePrice and beyond a target's distance impact is zero.    *)
(*  - analyzeTrade is run on the series of at most two closes and on flat   *)
(*    series around the indicator periods: on other series the exact        *)
(*    fractions of the scores do not fit 32-bit integers.                   *)
(***************************************************************************)
MaxPeriod == 3     \* indicator periods 1..MaxPeriod besides the defaults
Grain == 2         \* RSI readings and scores in steps of 1 / Grain
ScoreGrid == 4     \* component scores in steps of 100 / ScoreGrid
BasePrice == 20    \* the current price of the enumerated trade set-ups
MaxOffset == 4     \* targets within MaxOffset of BasePrice

PriceSeries == UNION {[1..n -> 1..MaxPrice] : n \in 0..MaxLen}

PatternSeries(n, shape, level) ==
    [k \in 1..n |-> CASE shape = "flat" -> level
                      [] shape = "rise" -> level + k
                      [] shape = "zigzag" -> level + 2 * (k % 2)]

RSISeries ==
    {PatternSeries(n, shape, level) :
        n \in DefaultRSIPeriod..(DefaultRSIPeriod + 1 + MaxExtra),
        shape \in {"flat", "rise", "zigzag"},
        level \in 1..MaxPrice}

BandSeries ==
    PriceSeries \cup
    {PatternSeries(n, shape, level) :
        n \in (DefaultBBPeriod - 1)..(DefaultBBPeriod + MaxExtra),
        shape \in {"flat", "zigzag"},
        level \in 1..MaxPrice}

TradeSeries ==
    UNION {[1..n -> 1..MaxPrice] : n \in 0..2} \cup
    {PatternSeries(n, "flat", level) :
        n \in {DefaultRSIPeriod + 1, DefaultBBPeriod, DefaultBBPeriod + MaxExtra},
        level \in 1..MaxPrice}

Periods == 1..MaxPeriod
Readings == {Num(k, Grain) : k \in (0 - Grain)..(100 * Grain)} \cup {NaN}
Scores == {I((100 * k) \div ScoreGrid) : k \in 0..ScoreGrid}
Targets == (BasePrice - MaxOffset)..(BasePrice + MaxOffset)
Ratios == {Num(k, Grain) : k \in 0..(3 * Grain + 1)}

AnalysisCalls ==
    {[fn |-> "calculateEMA", prices |-> s, period |-> n] :
        s \in PriceSeries, n \in Periods \cup {TrendEMAPeriod}}
    \cup
    {[fn |-> "calculateRSI", prices |-> s, period |-> n] :
        s \in PriceSeries, n \in Periods \cup {DefaultRSIPeriod}}
    \cup
    {[fn |-> "calculateRSI", prices |-> s, period |-> DefaultRSIPeriod] :
        s \in RSISeries}
    \cup
    {[fn |-> "calculateVolatilityScore", prices |-> s] : s \in BandSeries}
    \cup
    {[fn |-> "calculateMomentumScore", rsi |-> r, direction |-> d] :
        r \in Readings, d \in Directions}
    \cup
    {[fn |-> "generateRecommendation", score |-> r, direction |-> d] :
        r \in Readings, d \in Directions}
    \cup
    {[fn |-> "analyzeTrade", prices |-> s, currentPrice |-> BasePrice,
      takeProfit |-> tp, stopLoss |-> sl, direction |-> d] :
        s \in TradeSeries, tp \in Targets, sl \in Targets,
        d \in Directions \cup {Undefined}}

(***************************************************************************)
(* The state machine of the analysis functions: one call of one function    *)
(* on a chosen input.                                                       *)
(***************************************************************************)
InitAnalysis ==
    /\ \/ params \in AnalysisCalls
       \/ \E tp \in Targets, sl \in Targets, d \in Directions,
             t \in Scores, m \in Scores, v \in Scores :
             params = [fn |-> "calculateTargetProbabilities",
                       currentPrice |-> BasePrice, takeProfit |-> tp,
                       stopLoss |-> sl, direction |-> d, trendScore |-> t,
                       momentumScore |-> m, volatilityScore |-> v]
       \/ \E t \in Scores, m \in Scores, v \in Scores, rr \in Ratios,
             tp \in Scores :
             params = [fn |-> "calculateTradeSuccessLikelihood",
                       trendScore |-> t, momentumScore |-> m,
                       volatilityScore |-> v, riskRewardRatio |-> rr,
                       tpProbability |-> tp,
                       slProbability |-> JsSub(I(100), tp)]
    /\ pc = "ready"
    /\ backtestResult = Null
    /\ exitLog = <<>>
    /\ ret = Null
    /\ results = <<>>
    /\ IdleApp
    /\ IdleIO

Returns(value) ==
    /\ ret' = value
    /\ pc' = "done"
    /\ UNCHANGED <<params, backtestResult, exitLog, results, appVars, ioVars>>

CallEMA ==
    /\ pc = "ready"
    /\ params.fn = "calculateEMA"
    /\ Returns(calculateEMA(Numbers(params.prices), params.period))

CallRSI ==
    /\ pc = "ready"
    /\ params.fn = "calculateRSI"
    /\ Returns(calculateRSI(Numbers(params.prices), params.period))

\* lines 143, 147-153 and 158: the bands of the series and the volatility
\* score of their last entry, as analyzeTrade obtains them
CallVolatilityScore ==
    /\ pc = "ready"
    /\ params.fn = "calculateVolatilityScore"
    /\ \E bb \in {calculateBollingerBands(Numbers(params.prices), DefaultBBPeriod,
                                          DefaultStdDev, DefaultLookback)} :
          Returns([bands |-> bb, volatilityScore |-> calculateVolatilityScore(bb)])

CallMomentumScore ==
    /\ pc = "ready"
    /\ params.fn = "calculateMomentumScore"
    /\ Returns(calculateMomentumScore(params.rsi, params.direction))

CallTargetProbabilities ==
    /\ pc = "ready"
    /\ params.fn = "calculateTargetProbabilities"
    /\ Returns(calculateTargetProbabilities(
                   I(params.currentPrice), I(params.takeProfit),
                   I(params.stopLoss), params.direction, params.trendScore,
                   params.momentumScore, params.volatilityScore))

CallRecommendation ==
    /\ pc = "ready"
    /\ params.fn = "generateRecommendation"
    /\ Returns(generateRecommendation(params.score, params.direction))

CallTradeSuccessLikelihood ==
    /\ pc = "ready"
    /\ params.fn = "calculateTradeSuccessLikelihood"
    /\ Returns(calculateTradeSuccessLikelihood(
                   params.trendScore, params.momentumScore,
                   params.volatilityScore, params.riskRewardRatio,
                   params.tpProbability, params.slProbability))

CallAnalyzeTrade ==
    /\ pc = "ready"
    /\ params.fn = "analyzeTrade"
    /\ Returns(analyzeTrade([prices |-> Numbers(params.prices),
                             currentPrice |-> I(params.currentPrice),
                             takeProfit |-> I(params.takeProfit),
                             stopLoss |-> I(params.stopLoss),
                             direction |-> params.direction]))

NextAnalysis ==
    \/ CallEMA
    \/ CallRSI
    \/ CallVolatilityScore
    \/ CallMomentumScore
    \/ CallTargetProbabilities
    \/ CallRecommendation
    \/ CallTradeSuccessLikelihood
    \/ CallAnalyzeTrade

SpecAnalysis == InitAnalysis /\ [][NextAnalysis]_vars

(***************************************************************************)
(* Vocabulary of the properties of the analysis functions.                  *)
(***************************************************************************)
Called(fn) == pc = "done" /\ params.fn = fn

\* the direction a call trades in: analyzeTrade defaults it to long
TradeDirection == IF params.direction = Undefined THEN "long" ELSE params.direction

\* the probabilities of a calculateTargetProbabilities call before line 239
RawOfCall ==
    RawProbabilities(I(params.currentPrice), I(params.takeProfit),
                     I(params.stopLoss), params.direction, params.trendScore,
                     params.momentumScore, params.volatilityScore)

InRange(x, lo, hi) == IsFinite(x) /\ JsGe(x, I(lo)) /\ JsLe(x, I(hi))

(***************************************************************************)
(* C12.  For every input whose two raw probabilities are not both zero, the *)
(* takeProfitProbability and stopLossProbability that                       *)
(* calculateTargetProbabilities returns are integers in 0..100 that sum to  *)
(* exactly 100.                                                             *)
(***************************************************************************)
C12_ProbabilitiesSumTo100 ==
    ( /\ Called("calculateTargetProbabilities")
      /\ ~(RawOfCall.tp = I(0) /\ RawOfCall.sl = I(0)) ) =>
        /\ InRange(ret.tpProbability, 0, 100)
        /\ InRange(ret.slProbability, 0, 100)
        /\ ret.tpProbability.den = 1
        /\ ret.slProbability.den = 1
        /\ JsAdd(ret.tpProbability, ret.slProbability) = I(100)

\* C12 without the sum: what does hold of the two probabilities
C12_ProbabilitiesAreIntegersInRange ==
    ( /\ Called("calculateTargetProbabilities")
      /\ ~(RawOfCall.tp = I(0) /\ RawOfCall.sl = I(0)) ) =>
        /\ InRange(ret.tpProbability, 0, 100)
        /\ InRange(ret.slProbability, 0, 100)
        /\ ret.tpProbability.den = 1
        /\ ret.slProbability.den = 1
        /\ JsAdd(ret.tpProbability, ret.slProbability) \in {I(100), I(101)}

(***************************************************************************)
(* C13.  When both raw probabilities are zero (take-profit and stop-loss    *)
(* each 20% or more from the entry, for one), calculateTargetProbabilities  *)
(* returns two defined numbers, never NaN or an infinity.                   *)
(***************************************************************************)
C13_DegenerateFallback ==
    ( /\ Called("calculateTargetProbabilities")
      /\ RawOfCall.tp = I(0)
      /\ RawOfCall.sl = I(0) ) =>
        /\ IsFinite(ret.tpProbability)
        /\ IsFinite(ret.slProbability)

(***************************************************************************)
(* C14.  A take-profit on the wrong side of the current price (at or below  *)
(* it for a long, at or above it for a short) is not rejected by            *)
(* analyzeTrade; the takeProfitProbability returned for it, whenever it is  *)
(* a number, is 0.                                                          *)
(***************************************************************************)
WrongSideTarget ==
    IF TradeDirection = "long"
    THEN params.takeProfit <= params.currentPrice
    ELSE params.takeProfit >= params.currentPrice

C14_WrongSideTargetScoresZero ==
    /\ ( /\ Called("analyzeTrade")
         /\ WrongSideTarget
         /\ IsFinite(ret.takeProfitProbability) ) =>
           ret.takeProfitProbability = I(0)
    /\ ( /\ Called("calculateTargetProbabilities")
         /\ WrongSideTarget
         /\ IsFinite(ret.tpProbability) ) =>
           ret.tpProbability = I(0)

\* what the code does instead: a take-profit gets the probabilities of the
\* take-profit at the same distance on the other side of the current price
C14_SideOfTargetIgnored ==
    Called("calculateTargetProbabilities") =>
        ret = calculateTargetProbabilities(
                  I(params.currentPrice),
                  I(2 * params.currentPrice - params.takeProfit),
                  I(params.stopLoss), params.direction, params.trendScore,
                  params.momentumScore, params.volatilityScore)

(***************************************************************************)
(* C15.  Whenever the trend, momentum and volatility scores and the two     *)
(* target probabilities of an analyzeTrade call are defined numbers, its    *)
(* overallScore is a defined number in 0..100.                              *)
(***************************************************************************)
C15_OverallScoreInRange ==
    ( /\ Called("analyzeTrade")
      /\ IsFinite(ret.trendScore)
      /\ IsFinite(ret.momentumScore)
      /\ IsFinite(ret.volatilityScore)
      /\ IsFinite(ret.takeProfitProbability)
      /\ IsFinite(ret.stopLossProbability) ) =>
        InRange(ret.overallScore, 0, 100)

(***************************************************************************)
(* C16.  The recommendation is the tier of the overall score: for a long    *)
(* Strong Buy from 80, Buy from 60, Neutral from 40, Avoid Long from 20 and *)
(* Strong Avoid Long otherwise; for a short Strong Short, Short, Neutral,   *)
(* Avoid Short and Strong Avoid Short at the same thresholds.  It holds of  *)
(* generateRecommendation on every score and of the recommendation and      *)
(* overallScore that analyzeTrade returns.                                  *)
(***************************************************************************)
TierLabels ==
    [long |-> <<"Strong Buy", "Buy", "Neutral", "Avoid Long", "Strong Avoid Long">>,
     short |-> <<"Strong Short", "Short", "Neutral", "Avoid Short",
                 "Strong Avoid Short">>]

\* the tier of a score: one more than the number of thresholds it does not
\* reach
TierOf(score, direction) ==
    TierLabels[direction][1 + Cardinality({h \in {80, 60, 40, 20} :
                                              ~JsGe(score, I(h))})]

C16_RecommendationIsTier ==
    /\ Called("generateRecommendation") =>
           ret = TierOf(params.score, params.direction)
    /\ Called("analyzeTrade") =>
           ret.recommendation = TierOf(ret.overallScore, TradeDirection)

\* a score exactly on the top threshold has been recommended
C16_Witness ==
    /\ Called("generateRecommendation")
    /\ params.score = I(80)
    /\ params.direction = "short"
    /\ ret = "Strong Short"

(***************************************************************************)
(* C17.  For an RSI reading r in [0, 100] the long momentum score is 90     *)
(* when r < 30, 70 when 30 <= r < 40, 20 when r > 70 and max(0, 70 - r)     *)
(* otherwise; the short score of r is the long score of 100 - r; the score  *)
(* is always in [0, 100].                                                   *)
(***************************************************************************)
LongMomentum(r) ==
    IF JsLt(r, I(30)) THEN I(90)
    ELSE IF JsLt(r, I(40)) THEN I(70)
    ELSE IF JsGt(r, I(70)) THEN I(20)
    ELSE MathMax(I(0), JsSub(I(70), r))

C17_MomentumTiersMirror ==
    ( Called("calculateMomentumScore") /\ InRange(params.rsi, 0, 100) ) =>
        /\ InRange(ret, 0, 100)
        /\ params.direction = "long" => ret = LongMomentum(params.rsi)
        /\ params.direction = "short" =>
               ret = LongMomentum(JsSub(I(100), params.rsi))

\* a short call on a reading between 60 and 70 has returned 70
C17_Witness ==
    /\ Called("calculateMomentumScore")
    /\ params.direction = "short"
    /\ JsGt(params.rsi, I(60))
    /\ JsLt(params.rsi, I(70))
    /\ ret = I(70)

(***************************************************************************)
(* C18.  Every value calculateRSI returns is a number in [0, 100]; a        *)
(* constant series (average gain and average loss both zero) does not       *)
(* produce NaN.  Stated for the series with more closes than the period,    *)
(* constant ones included.                                                  *)
(***************************************************************************)
C18_RSIInRange ==
    ( Called("calculateRSI") /\ Len(params.prices) > params.period ) =>
        \A k \in 1..Len(ret) : InRange(ret[k], 0, 100)

\* what does hold, of every series: each value is in [0, 100] or NaN
C18_RSIInRangeOrNaN ==
    Called("calculateRSI") =>
        \A k \in 1..Len(ret) : InRange(ret[k], 0, 100) \/ IsNaN(ret[k])

(***************************************************************************)
(* C19.  calculateEMA returns a sequence as long as its input, for every    *)
(* input, the empty one included; for a non-empty input its first element   *)
(* is prices[0] and each later element is the previous one plus             *)
(* (price - previous) * 2 / (period + 1).                                   *)
(***************************************************************************)
C19_EMASameLength ==
    Called("calculateEMA") =>
        /\ Len(ret) = Len(params.prices)
        /\ \A k \in 1..Len(params.prices) :
              ret[k] = IF k = 1
                       THEN I(params.prices[1])
                       ELSE JsAdd(ret[k - 1],
                                  JsMul(JsSub(I(params.prices[k]), ret[k - 1]),
                                        Num(2, params.period + 1)))

\* C19 for the non-empty inputs
C19_EMAOfNonEmpty ==
    ( Called("calculateEMA") /\ Len(params.prices) > 0 ) =>
        /\ Len(ret) = Len(params.prices)
        /\ \A k \in 1..Len(params.prices) :
              ret[k] = IF k = 1
                       THEN I(params.prices[1])
                       ELSE JsAdd(ret[k - 1],
                                  JsMul(JsSub(I(params.prices[k]), ret[k - 1]),
                                        Num(2, params.period + 1)))

(***************************************************************************)
(* C20.  For a constant series of at least 20 closes the upper, middle and  *)
(* lower band are equal in every window and the volatility score is 50 or   *)
(* 0, never NaN; for a series of fewer than 20 closes there are no bands    *)
(* and the volatility score is 50.                                          *)
(***************************************************************************)
IsConstant(prices) == \A k \in 1..Len(prices) : prices[k] = prices[1]

C21_MarketScoresDefined ==
    (Called("analyzeTrade") /\ Len(params.prices) > 0) =>
        /\ InRange(ret.trendScore, 0, 100)
        /\ InRange(ret.momentumScore, 0, 100)
        /\ InRange(ret.volatilityScore, 0, 100)
        /\ InRange(ret.marketScore, 0, 100)

\* what does hold on a non-empty series: the trend and volatility scores are
\* in range, and the momentum score is in range or NaN, the market score
\* being NaN exactly when the momentum score is
C21_ScoresInRangeOrNaN ==
    (Called("analyzeTrade") /\ Len(params.prices) > 0) =>
        /\ InRange(ret.trendScore, 0, 100)
        /\ InRange(ret.volatilityScore, 0, 100)
        /\ IsNaN(ret.momentumScore) \/ InRange(ret.momentumScore, 0, 100)
        /\ IsNaN(ret.marketScore) \/ InRange(ret.marketScore, 0, 100)
        /\ IsNaN(ret.marketScore) <=> IsNaN(ret.momentumScore)

(***************************************************************************)
(* Repeated calls.  analyzeTrade and runBacktest are called MaxCalls times  *)
(* on the same argument object.  Neither module keeps a variable outside    *)
(* its functions (technicalAnalysis.ts has only function declarations, the  *)
(* backtest module only calculateProfitLoss and runBacktest), and neither   *)
(* function reads a clock or a random number, so a call's value is a        *)
(* function of the argument object as the call finds it.  What a call       *)
(* leaves in the caller's array is modelled per statement that touches it:  *)
(*  - calculateEMA (lines 5-8) and calculateRSI (line 21) read prices[i];    *)
(*  - calculateBollingerBands (line 61) and calculateTrendScore (line 265)  *)
(*    call prices.slice, which copies the elements and leaves its receiver  *)
(*    as it is (Array.prototype.splice would remove them from it);          *)
(*  - runBacktest (App_full.tsx lines 420-471) reads prices[i], prices[j]   *)
(*    and their fields and pushes to its own array trades.                  *)
(***************************************************************************)
MaxCalls == 2      \* calls made on the same argument object
TrendWindow == 20  \* calculateTrendScore looks at the last 20 closes

\* the receiver of arr.splice(-n): the last n elements are removed from it
ReceiverAfterSplice(arr, n) == SubSeq(arr, 1, Max(0, Len(arr) - n))

\* the receiver of arr.slice(-n): unchanged
ReceiverAfterSlice(arr, n) == arr

\* the caller's array of closes after a call of analyzeTrade
PricesAfterAnalyzeTrade(prices) == ReceiverAfterSlice(prices, TrendWindow)

\* the caller's array of candles after a call of runBacktest
PricesAfterRunBacktest(prices) == prices

InitPurity ==
    /\ \/ params \in {c \in AnalysisCalls : c.fn = "analyzeTrade"}
       \/ \E s \in EnumSeries, tp \in Thresholds, sl \in Thresholds,
             d \in Directions :
             params = [fn |-> "runBacktest", prices |-> s, takeProfit |-> tp,
                       stopLoss |-> sl, direction |-> d]
    /\ pc = "ready"
    /\ backtestResult = Null
    /\ exitLog = <<>>
    /\ ret = Null
    /\ results = <<>>
    /\ IdleApp
    /\ IdleIO

Completes(value, pricesAfter) ==
    /\ results' = Append(results, [args |-> params, value |-> value])
    /\ params' = [params EXCEPT !.prices = pricesAfter]
    /\ pc' = IF Len(results) + 1 = MaxCalls THEN "done" ELSE "ready"
    /\ UNCHANGED <<backtestResult, exitLog, ret, appVars, ioVars>>

AnalyzeTradeAgain ==
    /\ pc = "ready"
    /\ params.fn = "analyzeTrade"
    /\ Completes(analyzeTrade([prices |-> Numbers(params.prices),
                               currentPrice |-> I(params.currentPrice),
                               takeProfit |-> I(params.takeProfit),
                               stopLoss |-> I(params.stopLoss),
                               direction |-> params.direction]),
                 PricesAfterAnalyzeTrade(params.prices))

RunBacktestAgain ==
    /\ pc = "ready"
    /\ params.fn = "runBacktest"
    /\ Completes(runBacktest(params), PricesAfterRunBacktest(params.prices))

NextPurity ==
    \/ AnalyzeTradeAgain
    \/ RunBacktestAgain

SpecPurity == InitPurity /\ [][NextPurity]_vars

C23_SubScoreIsMarketScore ==
    Called("calculateTradeSuccessLikelihood") =>
        marketConditionScore(params.trendScore, params.momentumScore,
                             params.volatilityScore)
        = UnroundedMarketScore(params.trendScore, params.momentumScore,
                               params.volatilityScore)

\* what does hold: the sub-score weighs momentum with 0.4 and the inverted
\* volatility with 0.2, so it exceeds the unrounded market score by
\* 0.1 * momentum - 0.1 * (100 - volatility)
C23_SubScoreWeights ==
    Called("calculateTradeSuccessLikelihood") =>
        JsSub(marketConditionScore(params.trendScore, params.momentumScore,
                                   params.volatilityScore),
              UnroundedMarketScore(params.trendScore, params.momentumScore,
                                   params.volatilityScore))
        = JsSub(JsMul(Tenths(1), params.momentumScore),
                JsMul(Tenths(1), JsSub(I(100), params.volatilityScore)))

(***************************************************************************)
(* C24.  calculateRSI(prices, period) returns exactly max(0, n - period)    *)
(* values for a series of n prices: n - period values when n > period, and  *)
(* no value when n <= period, where there are fewer than period changes to  *)
(* average.                                                                 *)
(***************************************************************************)
C24_RSILength ==
    Called("calculateRSI") =>
        Len(ret) = Max(0, Len(params.prices) - params.period)

\* what does hold: line 29 pushes a first value whatever the length, so the
\* output has max(1, n - period) values
C24_RSILengthAtLeastOne ==
    Called("calculateRSI") =>
        Len(ret) = Max(1, Len(params.prices) - params.period)

(***************************************************************************)
(* The App component (src/src/App_full.tsx, lines 18-101 and 252-382;       *)
(* src/src/App.tsx has the same state and handlers).  Its state starts at   *)
(* the useState defaults; the effect of lines 71-73 calls loadCoinData when *)
(* the component has mounted and whenever selectedCoin has changed.         *)
(* loadCoinData (lines 32-69) runs up to its await in the step that starts  *)
(* it and from there to its end in the step in which getCoinData resolves:  *)
(* calls that are waiting can resolve in any order.  Every step ends with   *)
(* the component rendering its new state; an exception thrown while         *)
(* rendering unmounts the component.                                        *)
(*                                                                         *)
(* getCoinData is represented by the series it resolves to: CoinSeries(c),  *)
(* a different series for every coin, or the empty list.                    *)
(***************************************************************************)
MaxPending == 2    \* loadCoinData calls waiting at the same time

\* lines 11-16
AVAILABLE_COINS == {"bitcoin", "ethereum", "solana", "dogecoin"}

\* line 19
InitialCoin == "bitcoin"

CoinCloses(coin) ==
    CASE coin = "bitcoin" -> <<1, 2>>
      [] coin = "ethereum" -> <<2, 2, 2>>
      [] coin = "solana" -> <<1>>
      [] coin = "dogecoin" -> <<2, 1>>

CoinSeries(coin) ==
    [k \in 1..Len(CoinCloses(coin)) |->
        [time |-> k, open |-> CoinCloses(coin)[k], high |-> CoinCloses(coin)[k],
         low |-> CoinCloses(coin)[k], close |-> CoinCloses(coin)[k]]]

Closes(data) == [k \in 1..Len(data) |-> data[k].close]

\* The state backtestResult is null or a BacktestResult: null is kept as a
\* record of its own here, so that it can be told from a result.
NullObject == [null |-> TRUE]
IsNullObject(obj) == DOMAIN obj = {"null"}

RemoveAt(seq, k) == SubSeq(seq, 1, k - 1) \o SubSeq(seq, k + 1, Len(seq))

\* App.tsx renders the results with this component (BacktestResults.tsx,
\* lines 27-128): it reads backtestResult.trades only, every field of a
\* trade behind ?. or ??
BacktestResults(result) ==
    IF IsNullObject(result) THEN "prompt" ELSE "table"

\* App_full.tsx, lines 252-382: the results section.  Reading a property of
\* null or undefined throws a TypeError.
RenderResultsSection(result) ==
    IF IsNullObject(result) THEN "prompt"
    ELSE IF ~result.success THEN "nothing"
    ELSE IF result.statistics = Null THEN "TypeError"
    ELSE IF \E k \in DOMAIN result.trades :
                ~({"stopLoss", "takeProfit", "metrics"} \subseteq
                      DOMAIN result.trades[k])
         THEN "TypeError"
    ELSE "results"

\* lines 49-61: the indicators of the loaded closes
IndicatorsOf(prices) ==
    The({ [ema |-> Last(calculateEMA(prices, TrendEMAPeriod)),
           rsi |-> Last(calculateRSI(prices, DefaultRSIPeriod)),
           bb |-> [upper |-> Last(bb.upper), middle |-> Last(bb.middle),
                   lower |-> Last(bb.lower)]] :
          bb \in {calculateBollingerBands(prices, DefaultBBPeriod,
                                          DefaultStdDev, DefaultLookback)} })

InitApp ==
    /\ params = Null
    /\ pc = "ready"
    /\ backtestResult = NullObject
    /\ exitLog = <<>>
    /\ ret = Null
    /\ results = <<>>
    /\ selectedCoin = InitialCoin
    /\ chartData = <<>>
    /\ loading = FALSE
    /\ error = Null
    /\ analysis = Null
    /\ currentPriceState = 0
    /\ indicators = Null
    /\ pending = <<>>
    /\ rendered = "prompt"
    /\ IdleIO

\* lines 33-36: loadCoinData up to its await
StartLoad(coinId) ==
    /\ loading' = TRUE
    /\ error' = Null
    /\ pending' = Append(pending, coinId)

\* lines 71-73, on mount
MountEffect ==
    /\ pc = "ready"
    /\ pc' = "mounted"
    /\ StartLoad(selectedCoin)
    /\ UNCHANGED <<params, backtestResult, exitLog, ret, results, ioVars>>
    /\ UNCHANGED <<selectedCoin, chartData, analysis, currentPriceState, indicators, rendered>>

\* line 117 and the effect of lines 71-73
SelectCoin ==
    /\ pc = "mounted"
    /\ Len(pending) < MaxPending
    /\ \E coin \in AVAILABLE_COINS \ {selectedCoin} :
          /\ selectedCoin' = coin
          /\ StartLoad(coin)
    /\ UNCHANGED <<params, pc, backtestResult, exitLog, ret, results, ioVars>>
    /\ UNCHANGED <<chartData, analysis, currentPriceState, indicators, rendered>>

\* lines 36-68: getCoinData resolves for one of the waiting calls
LoadCompletes ==
    /\ pc = "mounted"
    /\ \E k \in DOMAIN pending :
       \E data \in {CoinSeries(pending[k]), <<>>} :
          /\ pending' = RemoveAt(pending, k)
          /\ IF Len(data) = 0
             THEN /\ error' = "No data available for this coin"
                  /\ UNCHANGED <<chartData, currentPriceState, indicators>>
             ELSE /\ chartData' = data
                  /\ currentPriceState' = Last(Closes(data))
                  /\ indicators' = IndicatorsOf(Numbers(Closes(data)))
                  /\ UNCHANGED error
          /\ loading' = FALSE
    /\ UNCHANGED <<params, pc, backtestResult, exitLog, ret, results, ioVars>>
    /\ UNCHANGED <<selectedCoin, analysis, rendered>>

\* what TradeForm submits (components/TradeForm.tsx, lines 43-74): the
\* current price as entry price and the two levels of its editable fields,
\* here one price step away on either side of it
TradeForms ==
    {[entryPrice |-> currentPriceState,
      takeProfit |-> IF d = "short" THEN currentPriceState - 1
                     ELSE currentPriceState + 1,
      stopLoss |-> IF d = "short" THEN currentPriceState + 1
                   ELSE currentPriceState - 1,
      direction |-> d] : d \in Directions \cup {Undefined}}

\* lines 75-101; with no chart data the handler returns at line 76
HandleTradeAnalysis ==
    /\ pc = "mounted"
    /\ Len(chartData) > 0
    /\ \E form \in TradeForms :
       \E entryPrice \in {form.entryPrice}, takeProfit \in {form.takeProfit},
          stopLoss \in {form.stopLoss}, direction \in {form.direction} :
          /\ params' = [entryPrice |-> entryPrice, takeProfit |-> takeProfit,
                        stopLoss |-> stopLoss, direction |-> direction]
          /\ analysis' = analyzeTrade([prices |-> Numbers(Closes(chartData)),
                                       currentPrice |-> I(entryPrice),
                                       takeProfit |-> I(takeProfit),
                                       stopLoss |-> I(stopLoss),
                                       direction |-> direction])
          /\ backtestResult' =
                 runBacktest([prices |-> chartData, takeProfit |-> takeProfit,
                              stopLoss |-> stopLoss,
                              direction |-> IF direction = Undefined
                                            THEN "long" ELSE direction])
    /\ rendered' = RenderResultsSection(backtestResult')
    /\ pc' = IF rendered' = "TypeError" THEN "unmounted" ELSE pc
    /\ UNCHANGED <<exitLog, ret, results, ioVars>>
    /\ UNCHANGED <<selectedCoin, chartData, loading, error, currentPriceState, indicators, pending>>

NextApp ==
    \/ MountEffect
    \/ SelectCoin
    \/ LoadCompletes
    \/ HandleTradeAnalysis

SpecApp == InitApp /\ [][NextApp]_vars

(***************************************************************************)
(* C25.  The presentation layer tolerates absent statistics: after          *)
(* handleTradeAnalysis has stored a runBacktest result with success = true  *)
(* and statistics = null, rendering the backtest results does not           *)
(* dereference the null statistics object, so no render-time fault occurs.  *)
(***************************************************************************)
C25_RenderToleratesNullStatistics ==
    (/\ ~IsNullObject(backtestResult)
     /\ backtestResult.success
     /\ backtestResult.statistics = Null) => rendered # "TypeError"

\* what does hold: every successful backtest result takes the component
\* down, and the results are never shown
C25_SuccessUnmounts ==
    /\ (~IsNullObject(backtestResult) /\ backtestResult.success) =>
           pc = "unmounted"
    /\ rendered # "results"

(***************************************************************************)
(* C29.  For any interleaving of coin selections and load completions in    *)
(* App, once no loadCoinData call is in flight, chartData and currentPrice  *)
(* are the data fetched for the currently selected coin (a slower response  *)
(* for a coin selected earlier never overwrites the data of the latest      *)
(* selection), and loading is false only when no load is in flight.  The    *)
(* loads considered delivered data: error is null.                          *)
(***************************************************************************)
C29_LatestSelectionShown ==
    pc = "mounted" =>
        /\ (pending = <<>> /\ error = Null) =>
               /\ chartData = CoinSeries(selectedCoin)
               /\ currentPriceState = Last(CoinCloses(selectedCoin))
        /\ loading = FALSE => pending = <<>>

\* what does hold: the chart and the current price belong to the same coin,
\* the one whose load completed last with data
C29_ChartAndPriceOfOneCoin ==
    pc = "mounted" =>
        \/ chartData = <<>> /\ currentPriceState = 0
        \/ \E coin \in AVAILABLE_COINS :
              /\ chartData = CoinSeries(coin)
              /\ currentPriceState = Last(CoinCloses(coin))

(***************************************************************************)
(* fetchWithRetry (api.ts; src/unnamed/part_000, lines 164-178).  The       *)
(* function is async: it stops at `await api.get` until the request         *)
(* succeeds or fails, and at `await new Promise(... setTimeout ...)` until   *)
(* the timer fires.  trace records the requests issued and the delays       *)
(* handed to setTimeout; ret is what the returned promise settles with.     *)
(***************************************************************************)
MaxRetries == 4       \* values 0..MaxRetries of the parameter retries
DefaultRetries == 3   \* line 164
DefaultDelay == 1000  \* line 164

Delays == {1, 2, DefaultDelay}
Payloads == {"market chart A", "market chart B"}
Failures == {"timeout", "status 429"}

\* the delay of the wait after failed attempt i, with no growth
BackoffConstant(delay, i) == delay

\* line 175: delay * Math.pow(2, i)
Backoff(delay, i) == delay * 2^i

InitFetch ==
    /\ \E retries \in 0..MaxRetries, delay \in Delays :
          params = [retries |-> retries, delay |-> delay]
    /\ pc = "loop"
    /\ backtestResult = Null
    /\ exitLog = <<>>
    /\ ret = Null
    /\ results = <<>>
    /\ IdleApp
    /\ attempt = 0
    /\ trace = <<>>
    /\ localStorage = Null
    /\ now = Null

FetchUnchanged ==
    UNCHANGED <<params, backtestResult, exitLog, results, appVars, localStorage, now>>

\* lines 165-168: the loop test holds and the request is issued
IssueRequest ==
    /\ pc = "loop"
    /\ attempt < params.retries
    /\ trace' = Append(trace, [type |-> "request"])
    /\ pc' = "requesting"
    /\ UNCHANGED <<attempt, ret>>
    /\ FetchUnchanged

\* lines 165 and 177-178: the loop test fails and the function ends
LoopEnds ==
    /\ pc = "loop"
    /\ attempt >= params.retries
    /\ ret' = [outcome |-> "returned", value |-> Undefined]
    /\ pc' = "done"
    /\ UNCHANGED <<attempt, trace>>
    /\ FetchUnchanged

\* lines 168-169
RequestSucceeds ==
    /\ pc = "requesting"
    /\ \E data \in Payloads :
          ret' = [outcome |-> "returned", value |-> data]
    /\ pc' = "done"
    /\ UNCHANGED <<attempt, trace>>
    /\ FetchUnchanged

\* lines 170-175
RequestFails ==
    /\ pc = "requesting"
    /\ \E failure \in Failures :
          IF attempt = params.retries - 1
          THEN /\ ret' = [outcome |-> "thrown", value |-> failure]
               /\ pc' = "done"
               /\ UNCHANGED trace
          ELSE /\ trace' = Append(trace, [type |-> "wait",
                                         ms |-> Backoff(params.delay, attempt)])
               /\ pc' = "waiting"
               /\ UNCHANGED ret
    /\ UNCHANGED attempt
    /\ FetchUnchanged

\* lines 175-176 and the i++ of line 165: the timer fires
TimerFires ==
    /\ pc = "waiting"
    /\ attempt' = attempt + 1
    /\ pc' = "loop"
    /\ UNCHANGED <<trace, ret>>
    /\ FetchUnchanged

NextFetch ==
    \/ IssueRequest
    \/ LoopEnds
    \/ RequestSucceeds
    \/ RequestFails
    \/ TimerFires

SpecFetch == InitFetch /\ [][NextFetch]_vars

Requests == {k \in DOMAIN trace : trace[k].type = "request"}

(***************************************************************************)
(* C26.  fetchWithRetry issues at most `retries` requests, one after the    *)
(* other: it returns the data of the first successful request and issues no *)
(* request after it; after a failed attempt i that is not the last it waits *)
(* delay * 2^i (1000 ms, then 2000 ms with the defaults) before the next    *)
(* attempt; it throws the error only after the last attempt has failed.     *)
(***************************************************************************)
C26_RetriesWithBackoff ==
    /\ Cardinality(Requests) <= params.retries
    /\ \A k \in DOMAIN trace :
           IF k % 2 = 1
           THEN trace[k].type = "request"
           ELSE /\ trace[k].type = "wait"
                /\ trace[k].ms = params.delay * 2^((k \div 2) - 1)
    /\ (pc = "done" /\ ret.value \in Payloads) =>
           /\ ret.outcome = "returned"
           /\ Len(trace) % 2 = 1
    /\ (pc = "done" /\ ret.outcome = "thrown") =>
           /\ Cardinality(Requests) = params.retries
           /\ Len(trace) % 2 = 1
           /\ ret.value \in Failures
    /\ (pc = "done" /\ ret.value = Undefined) => params.retries = 0

C26_Witness ==
    /\ pc = "done"
    /\ params = [retries |-> DefaultRetries, delay |-> DefaultDelay]
    /\ ret.outcome = "thrown"
    /\ trace = <<[type |-> "request"], [type |-> "wait", ms |-> 1000],
                 [type |-> "request"], [type |-> "wait", ms |-> 2000],
                 [type |-> "request"]>>

(***************************************************************************)
(* getCoinData (storage.ts; src/unnamed/part_000, lines 16-128): the        *)
(* conversion of the price points into daily candles, lines 71-106.         *)
(*                                                                         *)
(* A timestamp is a number of milliseconds since 1970-01-01T00:00:00Z; it   *)
(* is kept as its whole seconds s and the remaining milliseconds ms, so     *)
(* that Math.floor(timestamp / 1000) is s.  getUTCDate is the day of the    *)
(* month of the UTC calendar day the timestamp falls on; the days are those *)
(* of 1970, which is not a leap year.                                       *)
(***************************************************************************)
SecondsPerDay == 86400
MonthLengths == <<31, 28, 31, 30, 31, 30, 31, 31, 30, 31, 30, 31>>

Timestamp(day, second, ms) == [s |-> day * SecondsPerDay + second, ms |-> ms]

\* the UTC calendar day of a timestamp, counted from 1970-01-01 = 0
UTCDay(timestamp) == timestamp.s \div SecondsPerDay

RECURSIVE DayOfMonth(_, _)
DayOfMonth(dayOfYear, month) ==
    IF dayOfYear < MonthLengths[month]
    THEN dayOfYear + 1
    ELSE DayOfMonth(dayOfYear - MonthLengths[month], month + 1)

\* line 78: new Date(timestamp).getUTCDate()
getUTCDate(timestamp) == DayOfMonth(UTCDay(timestamp), 1)

\* lines 76-100: one pass of the loop; st is [ohlcData, currentDay,
\* currentCandle], currentCandle being <<>> for null or <<candle>>
CandleStep(st, point) ==
    LET day == getUTCDate(point.timestamp)
        price == point.price
    IN IF st.currentDay = day /\ st.currentCandle # <<>>
       THEN [st EXCEPT !.currentCandle =
                <<[@[1] EXCEPT !.high = Max(@, price),
                               !.low = Min(@, price),
                               !.close = price]>>]
       ELSE [ohlcData |-> st.ohlcData \o st.currentCandle,
             currentDay |-> day,
             currentCandle |-> <<[time |-> point.timestamp.s,
                                  open |-> price, high |-> price,
                                  low |-> price, close |-> price]>>]

RECURSIVE CandleLoop(_, _, _)
CandleLoop(points, k, st) ==
    IF k > Len(points) THEN st
    ELSE CandleLoop(points, k + 1, CandleStep(st, points[k]))

\* lines 72-106
BuildCandles(points) ==
    LET st == CandleLoop(points, 1, [ohlcData |-> <<>>, currentDay |-> -1,
                                     currentCandle |-> <<>>])
    IN st.ohlcData \o st.currentCandle

(***************************************************************************)
(* Inputs of the conversion: the chronologically ordered lists of up to     *)
(* MaxPoints price points whose timestamps lie on a grid of two times of    *)
(* day, with and without a fraction of a second, on 1 January, 2 January    *)
(* and 1 February.                                                          *)
(***************************************************************************)
MaxPoints == 3     \* longest list of price points

GridDays == {0, 1, MonthLengths[1]}

GridTimestamps ==
    {Timestamp(day, second, ms) :
        day \in GridDays, second \in {0, SecondsPerDay \div 2}, ms \in {0, 500}}

Earlier(a, b) == a.s < b.s \/ (a.s = b.s /\ a.ms < b.ms)

PointLists ==
    UNION {{[k \in 1..n |-> [timestamp |-> ts[k], price |-> pr[k]]] :
               ts \in {q \in [1..n -> GridTimestamps] :
                          \A k \in 1..(n - 1) : Earlier(q[k], q[k + 1])},
               pr \in [1..n -> 1..MaxPrice]} : n \in 0..MaxPoints}

InitCandles ==
    /\ \E points \in PointLists :
          params = [fn |-> "getCoinData conversion", points |-> points]
    /\ pc = "ready"
    /\ backtestResult = Null
    /\ exitLog = <<>>
    /\ ret = Null
    /\ results = <<>>
    /\ IdleApp
    /\ IdleIO

\* lines 71-106 on the points of one response
ConvertPoints ==
    /\ pc = "ready"
    /\ ret' = BuildCandles(params.points)
    /\ pc' = "done"
    /\ UNCHANGED <<params, backtestResult, exitLog, results, appVars, ioVars>>

NextCandles == ConvertPoints

SpecCandles == InitCandles /\ [][NextCandles]_vars

DaysOf(points) == {UTCDay(points[k].timestamp) : k \in DOMAIN points}

CandlesWellFormed(candles) ==
    /\ \A k \in 1..(Len(candles) - 1) : candles[k].time < candles[k + 1].time
    /\ \A k \in DOMAIN candles :
           /\ candles[k].low <= candles[k].open
           /\ candles[k].low <= candles[k].close
           /\ candles[k].open <= candles[k].high
           /\ candles[k].close <= candles[k].high

(***************************************************************************)
(* C28.  The candle series built from a chronologically ordered list of     *)
(* [timestamp, price] points has exactly one candle per distinct UTC        *)
(* calendar day of the input: two consecutive points on different calendar  *)
(* days, the same day of the month in different months included, are never  *)
(* merged into one candle; candle times are strictly increasing and every   *)
(* candle has low <= open, close <= high.                                   *)
(***************************************************************************)
C28_OneCandlePerDay ==
    (pc = "done") =>
        /\ Len(ret) = Cardinality(DaysOf(params.points))
        /\ \A day \in DaysOf(params.points) :
               \E k \in DOMAIN ret : ret[k].time \div SecondsPerDay = day
        /\ CandlesWellFormed(ret)

\* what does hold: the candles are well formed, and there is one per
\* calendar day when the points lie within one calendar month
C28_OneCandlePerDayOfOneMonth ==
    (pc = "done") =>
        /\ CandlesWellFormed(ret)
        /\ (\A day \in DaysOf(params.points) : day < MonthLengths[1]) =>
               /\ Len(ret) = Cardinality(DaysOf(params.points))
               /\ \A day \in DaysOf(params.points) :
                      \E k \in DOMAIN ret : ret[k].time \div SecondsPerDay = day

(***************************************************************************)
(* getCoinData as a whole (src/unnamed/part_000, lines 24-27 and 52-128).   *)
(* localStorage holds, per coin, no item, an item JSON.parse throws on, or  *)
(* the JSON text of {lastUpdated, prices}; the candles hold finite numbers  *)
(* only, which JSON.stringify and JSON.parse give back as they were, so an  *)
(* item is kept as the value it parses to.  The function is async: it       *)
(* stops at `await fetchCoinData` (line 69), and the clock can advance      *)
(* before the response arrives.  fetchCoinData resolves to a response with  *)
(* a list of price points or to a body without one, on which the loop of    *)
(* line 76 throws.  localStorage.setItem can throw (the storage is full or  *)
(* not available), which lines 114-118 catch.  results keeps one record     *)
(* per completed call (entryBefore and entryAfter are the coin's item       *)
(* before and after the step in which the call returned), trace the coins   *)
(* fetchCoinData was called for.                                            *)
(***************************************************************************)
MaxClock == 3      \* the clock runs for MaxClock steps of half an hour

OneHour == 60 * 60 * 1000
ClockStep == OneHour \div 2

StorageCoins == {"bitcoin", "ethereum"}

Absent == [kind |-> "absent"]
Corrupt == [kind |-> "corrupt"]
Stored(lastUpdated, prices) ==
    [kind |-> "json", value |-> [lastUpdated |-> lastUpdated, prices |-> prices]]

Point(day, second, price) ==
    [timestamp |-> Timestamp(day, second, 0), price |-> price]

OldCandles == BuildCandles(<<Point(0, 0, 2)>>)

Responses ==
    {[ok |-> TRUE, prices |-> <<Point(0, 0, 1), Point(1, 0, 2)>>],
     [ok |-> TRUE, prices |-> <<Point(1, 0, 2), Point(1, 60, 1)>>],
     [ok |-> FALSE]}

\* the entry is refreshed once it is one hour old
needsUpdateAtOneHour(lastUpdated) == now - lastUpdated >= OneHour

\* lines 24-27
needsUpdate(lastUpdated) == now - lastUpdated > OneHour

\* lines 54-64: storedData, NullObject standing for null
ReadStored(item) == IF item.kind = "json" THEN item.value ELSE NullObject

InitStorage ==
    /\ params = Null
    /\ pc = "idle"
    /\ backtestResult = Null
    /\ exitLog = <<>>
    /\ ret = Null
    /\ results = <<>>
    /\ IdleApp
    /\ attempt = Null
    /\ trace = <<>>
    /\ localStorage \in [StorageCoins -> {Absent, Corrupt, Stored(0, OldCandles)}]
    /\ now = 0

StorageUnchanged == UNCHANGED <<backtestResult, exitLog, appVars, attempt>>

\* lines 52-69 and 127: the call up to its await, or to its return when the
\* stored entry is fresh
CallGetCoinData ==
    /\ pc = "idle"
    /\ Len(results) < MaxCalls
    /\ \E coinId \in StorageCoins :
       \E storedData \in {ReadStored(localStorage[coinId])} :
          IF IsNullObject(storedData) \/ needsUpdate(storedData.lastUpdated)
          THEN /\ params' = [coinId |-> coinId, storedData |-> storedData,
                             found |-> localStorage[coinId], calledAt |-> now]
               /\ trace' = Append(trace, coinId)
               /\ pc' = "fetching"
               /\ UNCHANGED <<ret, results>>
          ELSE /\ ret' = storedData.prices
               /\ results' = Append(results,
                      [coinId |-> coinId, found |-> localStorage[coinId],
                       calledAt |-> now, fetched |-> FALSE, ok |-> FALSE,
                       saved |-> FALSE, returnedAt |-> now,
                       entryBefore |-> localStorage[coinId],
                       entryAfter |-> localStorage[coinId],
                       value |-> storedData.prices])
               /\ UNCHANGED <<params, trace, pc>>
    /\ UNCHANGED <<localStorage, now>>
    /\ StorageUnchanged

\* lines 69-124: the response arrives
FetchResolves ==
    /\ pc = "fetching"
    /\ \E response \in Responses, writable \in BOOLEAN :
       \E value \in {IF response.ok THEN BuildCandles(response.prices)
                     ELSE IF IsNullObject(params.storedData) THEN <<>>
                     ELSE params.storedData.prices} :
          /\ localStorage' =
                 IF response.ok /\ writable
                 THEN [localStorage EXCEPT ![params.coinId] = Stored(now, value)]
                 ELSE localStorage
          /\ ret' = value
          /\ results' = Append(results,
                 [coinId |-> params.coinId, found |-> params.found,
                  calledAt |-> params.calledAt, fetched |-> TRUE,
                  ok |-> response.ok, saved |-> response.ok /\ writable,
                  returnedAt |-> now,
                  entryBefore |-> localStorage[params.coinId],
                  entryAfter |-> localStorage'[params.coinId],
                  value |-> value])
    /\ pc' = "idle"
    /\ UNCHANGED <<params, trace, now>>
    /\ StorageUnchanged

\* lines 33-44
ClearCoinData ==
    /\ \E coinId \in StorageCoins : localStorage[coinId] # Absent
    /\ localStorage' = [coinId \in StorageCoins |-> Absent]
    /\ UNCHANGED <<params, pc, ret, results, trace, now>>
    /\ StorageUnchanged

\* time passes
Tick ==
    /\ now < MaxClock * ClockStep
    /\ now' = now + ClockStep
    /\ UNCHANGED <<params, pc, ret, results, trace, localStorage>>
    /\ StorageUnchanged

NextStorage ==
    \/ CallGetCoinData
    \/ FetchResolves
    \/ ClearCoinData
    \/ Tick

SpecStorage == InitStorage /\ [][NextStorage]_vars

\* the stored entry a call found was readable and at most one hour old
FoundFresh(call) ==
    /\ call.found.kind = "json"
    /\ call.calledAt - call.found.value.lastUpdated <= 3600000

\* call i + 1 follows call i immediately: same coin, same time, with the
\* storage as call i left it
FollowsImmediately(i) ==
    /\ results[i + 1].coinId = results[i].coinId
    /\ results[i + 1].calledAt = results[i].returnedAt
    /\ results[i + 1].found = results[i].entryAfter

(***************************************************************************)
(* C27.  getCoinData calls the API if and only if there is no readable      *)
(* stored entry for the coin or the stored entry is older than one hour; a  *)
(* fresh stored entry is returned unchanged without any fetch; after a      *)
(* successful fetch the stored entry is replaced by the newly built candles *)
(* with lastUpdated set to the fetch time, so that an immediately following *)
(* call returns those same candles without fetching.                        *)
(***************************************************************************)
C27_FetchIffStaleAndStore ==
    /\ \A i \in DOMAIN results :
           /\ results[i].fetched <=> ~FoundFresh(results[i])
           /\ ~results[i].fetched =>
                  /\ results[i].value = results[i].found.value.prices
                  /\ results[i].entryAfter = results[i].found
           /\ (results[i].fetched /\ results[i].ok) =>
                  results[i].entryAfter =
                      Stored(results[i].returnedAt, results[i].value)
    /\ \A i \in 1..(Len(results) - 1) :
           (results[i].fetched /\ results[i].ok /\ FollowsImmediately(i)) =>
               /\ ~results[i + 1].fetched
               /\ results[i + 1].value = results[i].value

(***************************************************************************)
(* C27, amended.  As above, where the write of the new entry succeeds: when *)
(* localStorage.setItem throws, the call still returns the newly built      *)
(* candles but the stored entry is left as it was, so that an immediately   *)
(* following call fetches again.                                            *)
(***************************************************************************)
C27_FetchIffStaleAndStoreIfWritable ==
    /\ \A i \in DOMAIN results :
           /\ results[i].fetched <=> ~FoundFresh(results[i])
           /\ ~results[i].fetched =>
                  /\ results[i].value = results[i].found.value.prices
                  /\ results[i].entryAfter = results[i].found
           /\ (results[i].fetched /\ results[i].ok) =>
                  results[i].entryAfter =
                      IF results[i].saved
                      THEN Stored(results[i].returnedAt, results[i].value)
                      ELSE results[i].entryBefore
    /\ \A i \in 1..(Len(results) - 1) :
           (results[i].fetched /\ results[i].ok /\ FollowsImmediately(i)) =>
               IF results[i].saved
               THEN /\ ~results[i + 1].fetched
                    /\ results[i + 1].value = results[i].value
               ELSE results[i + 1].fetched

C27_Witness ==
    /\ Len(results) >= 2
    /\ results[1].found.kind = "json"
    /\ results[1].fetched /\ results[1].ok /\ results[1].saved
    /\ FollowsImmediately(1)
    /\ ~results[2].fetched
    /\ Len(results[2].value) = 2

(***************************************************************************)
(* Vocabulary of the momentum explanation: the text contains a phrase, the  *)
(* risk/reward ratio of the trade analysed, and the latest RSI reading.     *)
(***************************************************************************)
Contains(text, phrase) == \E k \in DOMAIN text : text[k] = phrase

RiskRewardOfCall ==
    JsDiv(MathAbs(JsSub(I(params.takeProfit), I(params.currentPrice))),
          MathAbs(JsSub(I(params.currentPrice), I(params.stopLoss))))

LastRSIOfCall == Last(calculateRSI(Numbers(params.prices), DefaultRSIPeriod))

(***************************************************************************)
(* C30.  The momentum explanation analyzeTrade returns contains 'Favorable  *)
(* risk-reward ratio' exactly when |takeProfit - currentPrice| /            *)
(* |currentPrice - stopLoss| is at least 2 and 'Risk-reward ratio needs     *)
(* improvement' otherwise; it has the overbought wording exactly when the   *)
(* latest RSI is above 70 and the oversold wording exactly when it is       *)
(* below 30.                                                                *)
(***************************************************************************)
C30_MomentumExplanationThresholds ==
    Called("analyzeTrade") =>
        /\ Contains(ret.explanations.momentum, "Favorable risk-reward ratio")
               <=> JsGe(RiskRewardOfCall, I(2))
        /\ Contains(ret.explanations.momentum, "Risk-reward ratio needs improvement")
               <=> ~JsGe(RiskRewardOfCall, I(2))
        /\ Contains(ret.explanations.momentum, "Overbought conditions")
               <=> JsGt(LastRSIOfCall, I(70))
        /\ Contains(ret.explanations.momentum, "Oversold conditions")
               <=> JsLt(LastRSIOfCall, I(30))

\* what does hold: the RSI wording follows the latest RSI reading, and the
\* risk-reward wording follows the trend score, 'Favorable' exactly when the
\* trend score is at least 2
C30_RiskRewardTextFollowsTrendScore ==
    Called("analyzeTrade") =>
        /\ Contains(ret.explanations.momentum, "Favorable risk-reward ratio")
               <=> JsGe(ret.trendScore, I(2))
        /\ Contains(ret.explanations.momentum, "Risk-reward ratio needs improvement")
               <=> ~JsGe(ret.trendScore, I(2))
        /\ Contains(ret.explanations.momentum, "Overbought conditions")
               <=> JsGt(LastRSIOfCall, I(70))
        /\ Contains(ret.explanations.momentum, "Oversold conditions")
               <=> JsLt(LastRSIOfCall, I(30))

====
